---- MODULE Spec2Model ----
(***************************************************************************)
(* A model of the PDF data extractor (src/app.py, src/validators.py,       *)
(* src/dashboard.py).  Text is modelled character by character: a string   *)
(* is a sequence of one-character strings, so that pattern matching, case  *)
(* folding, whitespace stripping and filename sanitising are computed the  *)
(* way the code computes them.                                             *)
(***************************************************************************)
EXTENDS Integers, Sequences, FiniteSets, TLC

VARIABLES
    extracted_data,   \* app.py:51   the process-lifetime result log
    request,          \* the request being served (its inputs), Idle between requests
    response,         \* the body the handler returns for it
    returned,         \* history: the number of records each upload request returned
    call,             \* inputs of a direct call of extract_data_from_pdf
    results,          \* the list that call returned
    pc,               \* "call" before the direct call returns, "done" after
    parts             \* history: the number of file parts uploaded so far

vars == <<extracted_data, request, response, returned, call, results, pc, parts>>

\* Python's None where a str or a list is expected: strings and lists are
\* sequences, and no sequence of characters equals this one
None == << "None" >>
\* the truth value of a str-or-None
Truthy(v) == v # None /\ v # << >>
\* no request is being served
Idle == [ kind |-> "idle" ]

\* ------------------------------------------------------------------ bounds
MaxPages == 2      \* pages per document
MaxParts == 3      \* file parts uploaded per behaviour, over all its requests
MaxUploads == 2    \* upload requests per behaviour

\* the elements of a sequence
Range(f) == { f[i] : i \in DOMAIN f }

\* ------------------------------------------------------------- characters
UpperSeq == << "A","B","C","D","E","F","G","H","I","J","K","L","M",
               "N","O","P","Q","R","S","T","U","V","W","X","Y","Z" >>
LowerSeq == << "a","b","c","d","e","f","g","h","i","j","k","l","m",
               "n","o","p","q","r","s","t","u","v","w","x","y","z" >>
Upper == { UpperSeq[i] : i \in DOMAIN UpperSeq }
Lower == { LowerSeq[i] : i \in DOMAIN LowerSeq }
Digit == { "0","1","2","3","4","5","6","7","8","9" }
Alpha == Upper \cup Lower
WordChar == Alpha \cup Digit \cup { "_" }         \* \w
Whitespace == { " ", "\n", "\t", "\r" }           \* what str.strip() removes

\* str.lower() on one character
ToLower(c) ==
    IF c \in Upper
    THEN LowerSeq[CHOOSE i \in DOMAIN UpperSeq : UpperSeq[i] = c]
    ELSE c

\* str.lower()
LowerStr(s) == [i \in DOMAIN s |-> ToLower(s[i])]

\* str.strip() == '' for a non-empty str; `not text` for the empty one
IsBlank(text) == \A i \in DOMAIN text : text[i] \in Whitespace

\* s without its leading and trailing characters of `set` (str.strip(set))
RECURSIVE StripChars(_, _)
StripChars(s, set) ==
    IF s = << >> THEN s
    ELSE IF s[1] \in set THEN StripChars(Tail(s), set)
    ELSE IF s[Len(s)] \in set THEN StripChars(SubSeq(s, 1, Len(s) - 1), set)
    ELSE s

\* str.lstrip()
RECURSIVE StripLeft(_)
StripLeft(s) == IF s # << >> /\ s[1] \in Whitespace THEN StripLeft(Tail(s)) ELSE s

\* ---------------------------------------------------------- regex engine
\* A pattern is a sequence of items, each a word boundary \b, the end anchor
\* $, a greedy quantified character class  [set]{min,max}  (max = -1: no
\* limit), or a group of alternatives (?:a|b|...) tried left to right, each
\* alternative itself a pattern.
Cls(set, min, max) == [k |-> "cls", set |-> set, min |-> min, max |-> max]
WordBoundary == [k |-> "wb"]
EndAnchor == [k |-> "end"]
Alt(alts) == [k |-> "alt", alts |-> alts]
\* one literal character
Lit(c) == Cls({ c }, 1, 1)
\* (?:...)? : the group, or nothing
Optional(items) == Alt(<< items, << >> >>)

\* \b at pos: exactly one of text[pos-1], text[pos] is a word character
AtWordBoundary(text, pos) ==
    LET before == pos - 1 \in DOMAIN text /\ text[pos - 1] \in WordChar
        after  == pos \in DOMAIN text /\ text[pos] \in WordChar
    IN  before # after

\* $ at pos: the end of the text, or just before a final newline
AtEnd(text, pos) ==
    \/ pos = Len(text) + 1
    \/ pos = Len(text) /\ text[pos] = "\n"

\* the number of consecutive characters of `set` from pos on, at most max
RECURSIVE RunLength(_, _, _, _)
RunLength(set, text, pos, max) ==
    IF max = 0 \/ pos \notin DOMAIN text \/ text[pos] \notin set
    THEN 0
    ELSE 1 + RunLength(set, text, pos + 1, IF max < 0 THEN max ELSE max - 1)

\* re's backtracking match of items[k..] at pos: the position after the
\* match, or 0 when there is none.  A greedy item takes its longest run and
\* gives characters back one at a time until the rest matches; a group takes
\* its first alternative after which the rest matches.
RECURSIVE MatchHere(_, _, _, _)
RECURSIVE TryCount(_, _, _, _, _)
RECURSIVE TryAlts(_, _, _, _, _)
MatchHere(items, k, text, pos) ==
    IF k > Len(items) THEN pos
    ELSE IF items[k].k = "wb"
    THEN IF AtWordBoundary(text, pos) THEN MatchHere(items, k + 1, text, pos) ELSE 0
    ELSE IF items[k].k = "end"
    THEN IF AtEnd(text, pos) THEN MatchHere(items, k + 1, text, pos) ELSE 0
    ELSE IF items[k].k = "alt"
    THEN TryAlts(items, k, text, pos, 1)
    ELSE LET run == RunLength(items[k].set, text, pos, items[k].max)
         IN  IF run < items[k].min THEN 0 ELSE TryCount(items, k, text, pos, run)

TryCount(items, k, text, pos, n) ==
    LET e == MatchHere(items, k + 1, text, pos + n)
    IN  IF e # 0 THEN e
        ELSE IF n > items[k].min THEN TryCount(items, k, text, pos, n - 1)
        ELSE 0

TryAlts(items, k, text, pos, i) ==
    IF i > Len(items[k].alts) THEN 0
    ELSE LET e == MatchHere(items[k].alts[i] \o SubSeq(items, k + 1, Len(items)),
                           1, text, pos)
         IN  IF e # 0 THEN e ELSE TryAlts(items, k, text, pos, i + 1)

\* re.match(r'^...$', text): the pattern, which ends in $, matches at the start
match(items, text) == MatchHere(items, 1, text, 1) # 0

\* re.finditer(pattern, text): the non-overlapping matches, left to right
RECURSIVE FindFrom(_, _, _)
FindFrom(items, text, pos) ==
    IF pos > Len(text) THEN << >>
    ELSE LET e == MatchHere(items, 1, text, pos)
         IN  IF e > pos
             THEN << SubSeq(text, pos, e - 1) >> \o FindFrom(items, text, e)
             ELSE FindFrom(items, text, pos + 1)

finditer(items, text) == FindFrom(items, text, 1)

\* re.finditer(re.escape(term), text, re.IGNORECASE): the non-overlapping
\* case-insensitive occurrences of the literal term, left to right, each
\* reported with the casing it has in the text
RECURSIVE FindLiteralFrom(_, _, _)
FindLiteralFrom(term, text, pos) ==
    IF pos + Len(term) - 1 > Len(text) THEN << >>
    ELSE LET here == SubSeq(text, pos, pos + Len(term) - 1)
         IN  IF LowerStr(here) = LowerStr(term)
             THEN << here >> \o FindLiteralFrom(term, text, pos + Len(term))
             ELSE FindLiteralFrom(term, text, pos + 1)

finditer_literal(term, text) == FindLiteralFrom(term, text, 1)

\* ------------------------------------------------------------- patterns
EmailLocalChar == Alpha \cup Digit \cup { ".", "_", "%", "+", "-" }
EmailDomainChar == Alpha \cup Digit \cup { ".", "-" }

\* r'[a-zA-Z0-9._%+-]+@[a-zA-Z0-9.-]+\.[a-zA-Z]{2,}'
email_pattern ==
    << Cls(EmailLocalChar, 1, -1), Cls({ "@" }, 1, 1), Cls(EmailDomainChar, 1, -1),
       Cls({ "." }, 1, 1), Cls(Alpha, 2, -1) >>

\* the keys of the PATTERNS table: the pre-registered field identifiers
PatternKeys ==
    { "full_name", "date_of_birth", "mobile_number", "telephone_number",
      "email_address", "residential_address", "aadhar_number", "pan_number",
      "passport_number", "voter_id_number", "driving_license_number",
      "bank_account_number", "credit_debit_card_number", "ip_address",
      "custom_search" }

\* the fields the extractor special-cases (name, mobile, email, custom search)
SpecialFields == { "full_name", "mobile_number", "email_address", "custom_search" }

\* the entries of PATTERNS that are a plain sequence of quantified classes
\* between word boundaries
SeparatorChar == { "-", " " }
PatternFields ==
    { "email_address", "aadhar_number", "pan_number", "passport_number",
      "voter_id_number", "driving_license_number", "bank_account_number" }

PATTERNS ==
    [ f \in PatternFields |->
        CASE f = "email_address" -> email_pattern
          [] f = "aadhar_number" ->
                << WordBoundary, Cls(Digit, 4, 4), Cls(SeparatorChar, 0, 1),
                   Cls(Digit, 4, 4), Cls(SeparatorChar, 0, 1), Cls(Digit, 4, 4),
                   WordBoundary >>
          [] f = "pan_number" ->
                << WordBoundary, Cls(Upper, 5, 5), Cls(Digit, 4, 4), Cls(Upper, 1, 1),
                   WordBoundary >>
          [] f = "passport_number" ->
                << WordBoundary, Cls(Upper \cup Digit, 6, 9), WordBoundary >>
          [] f = "voter_id_number" ->
                << WordBoundary, Cls(Upper, 3, 3), Cls(Digit, 7, 7), WordBoundary >>
          [] f = "driving_license_number" ->
                << WordBoundary, Cls(Upper, 2, 2), Cls(Digit, 2, 2),
                   Cls(SeparatorChar, 0, 1), Cls(Upper \cup Digit, 1, 2),
                   Cls(SeparatorChar, 0, 1), Cls(Digit, 4, 7), WordBoundary >>
          [] f = "bank_account_number" ->
                << WordBoundary, Cls(Digit, 8, 18), WordBoundary >> ]

\* ------------------------------------------------------- email validator
\* email_validator.validate_email: the syntax rules a match of email_pattern
\* can still break, then the deliverability (DNS) check, which depends on the
\* resolver the process can reach (dns_ok).
IndexOf(c, s) == CHOOSE i \in DOMAIN s : s[i] = c /\ \A j \in 1..(i - 1) : s[j] # c

LocalPart(email) == SubSeq(email, 1, IndexOf("@", email) - 1)
DomainPart(email) == SubSeq(email, IndexOf("@", email) + 1, Len(email))

\* a dot-atom: no leading, trailing or doubled dot
DotAtomOk(s) ==
    /\ Len(s) > 0
    /\ s[1] # "." /\ s[Len(s)] # "."
    /\ \A i \in 1..(Len(s) - 1) : ~(s[i] = "." /\ s[i + 1] = ".")

\* no label of the domain starts or ends with a hyphen
LabelsOk(d) ==
    \A i \in DOMAIN d :
        d[i] = "-" => /\ i > 1 /\ i < Len(d)
                      /\ d[i - 1] # "." /\ d[i + 1] # "."

EmailSyntaxOk(email) ==
    /\ DotAtomOk(LocalPart(email))
    /\ DotAtomOk(DomainPart(email))
    /\ LabelsOk(DomainPart(email))

\* diagnostics are opaque: a one-element sequence holding the whole message
SyntaxMessage == << "The email address is not valid" >>
DeliverabilityMessage == << "The domain name does not accept email" >>

\* validate_and_format_email(email) -> (formatted, error)
validate_and_format_email(email, dns_ok) ==
    IF ~EmailSyntaxOk(email) THEN << None, SyntaxMessage >>
    ELSE IF ~dns_ok THEN << None, DeliverabilityMessage >>
    ELSE << LocalPart(email) \o << "@" >> \o LowerStr(DomainPart(email)), None >>

\* ------------------------------------------------- validators.py: DataValidator
\* a value that is not a str: None is defined above, NumberInput is an int
NumberInput == << "int" >>
IsStr(v) == v # None /\ v # NumberInput

\* str.upper() on one character, and on a str
ToUpper(c) ==
    IF c \in Lower
    THEN UpperSeq[CHOOSE i \in DOMAIN LowerSeq : LowerSeq[i] = c]
    ELSE c

UpperStr(s) == [i \in DOMAIN s |-> ToUpper(s[i])]

\* re.sub of every character of `set` by ''
Remove(s, set) == SelectSeq(s, LAMBDA c : c \notin set)

\* what a validator call comes to: the (value, message, verdict) it returns,
\* or the exception it raises
Validated(value, message, status) ==
    [ raised |-> FALSE, value |-> value, message |-> message, status |-> status ]
Raises(exception) ==
    [ raised |-> TRUE, value |-> None, message |-> << exception >>, status |-> "raised" ]

\* `if not value or not isinstance(value, str)` of the name, date, phone and
\* email validators
EmptyOrNotStr(value) == ~IsStr(value) \/ value = << >>

\* f"{cleaned[:4]}-{cleaned[4:8]}-{cleaned[8:]}"
RECURSIVE GroupsOfFour(_)
GroupsOfFour(digits) ==
    IF Len(digits) <= 4 THEN digits
    ELSE SubSeq(digits, 1, 4) \o << "-" >> \o GroupsOfFour(SubSeq(digits, 5, Len(digits)))

\* validate_and_format_aadhar with a pattern that lacks the closing anchor
validate_and_format_aadhar_unanchored(value) ==
    IF ~IsStr(value) THEN Raises("TypeError")
    ELSE LET cleaned == Remove(value, { "-" } \cup Whitespace)
         IN  IF match(<< Cls(Digit, 12, 12) >>, cleaned)
             THEN Validated(GroupsOfFour(cleaned), None, "correct")
             ELSE Validated(None, << "Invalid Aadhar number" >>, "wrong")

validate_and_format_aadhar(value) ==
    IF ~IsStr(value) THEN Raises("TypeError")
    ELSE LET cleaned == Remove(value, { "-" } \cup Whitespace)
         IN  IF match(<< Cls(Digit, 12, 12), EndAnchor >>, cleaned)
             THEN Validated(GroupsOfFour(cleaned), None, "correct")
             ELSE Validated(None, << "Invalid Aadhar number" >>, "wrong")

\* value.upper().replace(' ', '') matched against an anchored pattern: the
\* body the PAN, passport, voter ID and driving license validators share
UpperNoSpaces(value, pattern, message) ==
    IF ~IsStr(value) THEN Raises("AttributeError")
    ELSE LET cleaned == Remove(UpperStr(value), { " " })
         IN  IF match(pattern, cleaned)
             THEN Validated(cleaned, None, "correct")
             ELSE Validated(None, message, "wrong")

validate_and_format_pan(value) ==
    UpperNoSpaces(value, << Cls(Upper, 5, 5), Cls(Digit, 4, 4), Cls(Upper, 1, 1), EndAnchor >>,
                  << "Invalid PAN number" >>)

validate_and_format_passport(value) ==
    UpperNoSpaces(value, << Cls(Upper \cup Digit, 6, 9), EndAnchor >>,
                  << "Invalid passport number" >>)

validate_and_format_voter_id(value) ==
    UpperNoSpaces(value, << Cls(Upper, 3, 3), Cls(Digit, 7, 7), EndAnchor >>,
                  << "Invalid Voter ID number" >>)

validate_and_format_driving_license(value) ==
    UpperNoSpaces(value, << Cls(Upper, 2, 2), Cls(Digit, 2, 2), Cls(Upper \cup Digit, 1, 2),
                            Cls(Digit, 4, 7), EndAnchor >>,
                  << "Invalid driving license number" >>)

validate_and_format_bank_account(value) ==
    IF ~IsStr(value) THEN Raises("TypeError")
    ELSE LET cleaned == Remove(value, { c \in Range(value) : c \notin Digit })
         IN  IF match(<< Cls(Digit, 8, 18), EndAnchor >>, cleaned)
             THEN Validated(cleaned, None, "correct")
             ELSE Validated(None, << "Invalid bank account number" >>, "wrong")

\* 4[0-9]{12}(?:[0-9]{3})?|5[1-5][0-9]{14}|6(?:011|5[0-9][0-9])[0-9]{12}|3[47][0-9]{13}
\* |3(?:0[0-5]|[68][0-9])[0-9]{11}|(?:2131|1800|35\d{3})\d{11}
credit_card_pattern ==
    << Alt(<< << Lit("4"), Cls(Digit, 12, 12), Optional(<< Cls(Digit, 3, 3) >>) >>,
              << Lit("5"), Cls({ "1","2","3","4","5" }, 1, 1), Cls(Digit, 14, 14) >>,
              << Lit("6"), Alt(<< << Lit("0"), Lit("1"), Lit("1") >>,
                                  << Lit("5"), Cls(Digit, 2, 2) >> >>),
                 Cls(Digit, 12, 12) >>,
              << Lit("3"), Cls({ "4","7" }, 1, 1), Cls(Digit, 13, 13) >>,
              << Lit("3"), Alt(<< << Lit("0"), Cls({ "0","1","2","3","4","5" }, 1, 1) >>,
                                  << Cls({ "6","8" }, 1, 1), Cls(Digit, 1, 1) >> >>),
                 Cls(Digit, 11, 11) >>,
              << Alt(<< << Lit("2"), Lit("1"), Lit("3"), Lit("1") >>,
                        << Lit("1"), Lit("8"), Lit("0"), Lit("0") >>,
                        << Lit("3"), Lit("5"), Cls(Digit, 3, 3) >> >>),
                 Cls(Digit, 11, 11) >> >>),
       EndAnchor >>

validate_and_format_credit_card(value) ==
    IF ~IsStr(value) THEN Raises("TypeError")
    ELSE LET cleaned == Remove(value, { c \in Range(value) : c \notin Digit })
         IN  IF match(credit_card_pattern, cleaned)
             THEN Validated(GroupsOfFour(cleaned), None, "correct")
             ELSE Validated(None, << "Invalid credit card number" >>, "wrong")

\* 25[0-5]|2[0-4][0-9]|[01]?[0-9][0-9]?
Octet ==
    Alt(<< << Lit("2"), Lit("5"), Cls({ "0","1","2","3","4","5" }, 1, 1) >>,
           << Lit("2"), Cls({ "0","1","2","3","4" }, 1, 1), Cls(Digit, 1, 1) >>,
           << Cls({ "0","1" }, 0, 1), Cls(Digit, 1, 1), Cls(Digit, 0, 1) >> >>)

ip_pattern ==
    << Octet, Lit("."), Octet, Lit("."), Octet, Lit("."), Octet, EndAnchor >>

validate_and_format_ip(value) ==
    IF ~IsStr(value) THEN Raises("TypeError")
    ELSE IF match(ip_pattern, value)
    THEN Validated(value, None, "correct")
    ELSE Validated(None, << "Invalid IP address" >>, "wrong")

\* the registry of get_validator_for_type: field identifier -> validator
registry ==
    [ t \in { "full_name", "date_of_birth", "mobile_number", "telephone_number",
              "email_address", "aadhar_number", "pan_number", "passport_number",
              "voter_id_number", "driving_license_number", "bank_account_number",
              "credit_debit_card_number", "ip_address" } |->
        CASE t = "full_name" -> "DataValidator.validate_and_format_full_name"
          [] t = "date_of_birth" -> "DataValidator.validate_and_format_date"
          [] t \in { "mobile_number", "telephone_number" } ->
                "DataValidator.validate_and_format_phone"
          [] t = "email_address" -> "DataValidator.validate_and_format_email"
          [] t = "aadhar_number" -> "DataValidator.validate_and_format_aadhar"
          [] t = "pan_number" -> "DataValidator.validate_and_format_pan"
          [] t = "passport_number" -> "DataValidator.validate_and_format_passport"
          [] t = "voter_id_number" -> "DataValidator.validate_and_format_voter_id"
          [] t = "driving_license_number" ->
                "DataValidator.validate_and_format_driving_license"
          [] t = "bank_account_number" -> "DataValidator.validate_and_format_bank_account"
          [] t = "credit_debit_card_number" ->
                "DataValidator.validate_and_format_credit_card"
          [] t = "ip_address" -> "DataValidator.validate_and_format_ip" ]

\* validators.get(data_type)
get_validator_for_type(data_type) ==
    IF data_type \in DOMAIN registry THEN registry[data_type] ELSE "None"

\* the validators that open with the EmptyOrNotStr test, and what each
\* returns as its message when the test fires
EarlyReturnMessage ==
    [ v \in { "DataValidator.validate_and_format_full_name",
              "DataValidator.validate_and_format_date",
              "DataValidator.validate_and_format_phone",
              "DataValidator.validate_and_format_email" } |->
        CASE v = "DataValidator.validate_and_format_full_name" -> << "Invalid name format" >>
          [] v = "DataValidator.validate_and_format_date" -> << "Invalid date format" >>
          [] v = "DataValidator.validate_and_format_phone" ->
                << "Invalid phone number format" >>
          [] v = "DataValidator.validate_and_format_email" -> << "Invalid email format" >> ]

\* ----------------------------------------------- app.py: the name validator
\* the words of a str: its maximal runs of non-whitespace (str.split())
RECURSIVE Words(_)
Words(s) ==
    LET t == StripLeft(s)
        n == RunLength(Range(t) \ Whitespace, t, 1, -1)
    IN  IF t = << >> THEN << >>
        ELSE << SubSeq(t, 1, n) >> \o Words(SubSeq(t, n + 1, Len(t)))

\* ' '.join(words)
RECURSIVE JoinSpaces(_)
JoinSpaces(words) ==
    IF words = << >> THEN << >>
    ELSE IF Len(words) = 1 THEN words[1]
    ELSE words[1] \o << " " >> \o JoinSpaces(Tail(words))

\* the titles and suffixes nameparser knows, of which the model has these
Titles == { << "d","r" >>, << "m","r" >>, << "s","i","r" >> }
FirstNameTitles == { << "s","i","r" >> }
Suffixes == { << "j","r" >> }

\* nameparser compares in lower case and without periods
is_title(piece) == LowerStr(SelectSeq(piece, LAMBDA c : c # ".")) \in Titles
is_suffix(piece) == LowerStr(SelectSeq(piece, LAMBDA c : c # ".")) \in Suffixes
are_suffixes(pieces) == \A i \in DOMAIN pieces : is_suffix(pieces[i])

\* how many leading pieces are titles: a title must have a next piece, unless
\* it is the only piece
RECURSIVE TitleCount(_, _)
TitleCount(pieces, i) ==
    IF i \in DOMAIN pieces /\ is_title(pieces[i]) /\ (i < Len(pieces) \/ Len(pieces) = 1)
    THEN 1 + TitleCount(pieces, i + 1)
    ELSE 0

\* nameparser.HumanName(name) for a name without commas: leading titles, the
\* first name, then middle names up to the piece that only suffixes follow,
\* which is the last name; a title followed by one name titles a last name
HumanName(name) ==
    LET Parsed(title, first, rest, l, swap) ==
            [ title  |-> title,
              first  |-> IF swap THEN << >> ELSE first,
              middle |-> JoinSpaces(SubSeq(rest, 1, l - 1)),
              last   |-> IF swap THEN first ELSE IF l = 0 THEN << >> ELSE rest[l],
              suffix |-> SubSeq(rest, l + 1, Len(rest)) ]
        Assigned(title, first, rest) ==
            Parsed(title, first, rest,
                   IF rest = << >> THEN 0
                   ELSE CHOOSE i \in DOMAIN rest :
                            /\ are_suffixes(SubSeq(rest, i + 1, Len(rest)))
                            /\ \A j \in 1..(i - 1) :
                                   ~are_suffixes(SubSeq(rest, j + 1, Len(rest))),
                   /\ title # << >> /\ first # << >> /\ rest = << >>
                   /\ LowerStr(JoinSpaces(title)) \notin FirstNameTitles)
        Titled(pieces, t) ==
            Assigned(SubSeq(pieces, 1, t),
                     IF t < Len(pieces) THEN pieces[t + 1] ELSE << >>,
                     SubSeq(pieces, t + 2, Len(pieces)))
        Split(pieces) == Titled(pieces, TitleCount(pieces, 1))
    IN  Split(Words(name))

\* what https://api.genderize.io answers to one lookup: "likely" is status 200
\* with probability > 0.6, "unlikely" is status 200 with a lower probability,
\* "error" is another status or an exception of requests.get, "silent" is a
\* connection on which no response ever arrives
GenderizeAnswers == { "likely", "unlikely", "error", "silent" }

\* re.sub(r'[^\w\s]', '', name.strip()) and ' '.join(name.split())
CleanName(name) ==
    JoinSpaces(Words(SelectSeq(name, LAMBDA c : c \in WordChar \cup Whitespace)))

\* ' '.join(filter(None, [first, middle, last]))
FormattedName(parsed) ==
    JoinSpaces(SelectSeq(<< parsed.first, parsed.middle, parsed.last >>,
                         LAMBDA part : part # << >>))

\* the basic validation after the lookup: at least one part, none shorter than 2
BasicValidation(formatted_name) ==
    /\ Len(Words(formatted_name)) >= 1
    /\ \A i \in DOMAIN Words(formatted_name) : Len(Words(formatted_name)[i]) >= 2

\* the call reaches requests.get: the cleaned name has a first name
ReachesLookup(name) ==
    CleanName(name) # << >> /\ HumanName(CleanName(name)).first # << >>

\* app.py validate_and_format_full_name(name) -> (formatted, error), given
\* the answer of the lookup, when one arrives
validate_and_format_full_name(name, genderize) ==
    LET Checked(formatted_name) ==
            CASE genderize = "likely" -> << formatted_name, None >>
              [] genderize \in { "unlikely", "error" } ->
                     IF BasicValidation(formatted_name)
                     THEN << formatted_name, None >>
                     ELSE << None, << "Invalid name format" >> >>
        Parsed(cleaned, parsed_name) ==
            IF cleaned = << >> THEN << None, << "Name cannot be empty" >> >>
            ELSE IF parsed_name.first = << >> THEN << None, << "Invalid name format" >> >>
            ELSE Checked(FormattedName(parsed_name))
        Cleaned(cleaned) == Parsed(cleaned, HumanName(cleaned))
    IN  Cleaned(CleanName(name))

\* --------------------------------------------- app.py: the mobile validator
\* phonenumbers.parse of "+91" followed by a national number: the lengths it
\* refuses by raising NumberParseException
TooShortMessage == << "(3) The string supplied is too short to be a phone number." >>
TooLongMessage == << "(4) The string supplied is too long to be a phone number." >>
MinLengthForNsn == 2
MaxLengthForNsn == 17

\* phonenumbers.is_valid_number for country code 91, restricted to the
\* mobile ranges: ten digits, the first of them 6 to 9
is_valid_number(national) ==
    Len(national) = 10 /\ national[1] \in { "6", "7", "8", "9" }

\* app.py validate_and_format_mobile_number(number) -> (formatted, error)
validate_and_format_mobile_number(number) ==
    LET digits == SelectSeq(number, LAMBDA c : c \in Digit)
        national == IF Len(digits) >= 2 /\ SubSeq(digits, 1, 2) = << "9", "1" >>
                    THEN SubSeq(digits, 3, Len(digits))
                    ELSE digits
    IN  IF Len(national) < MinLengthForNsn THEN << None, TooShortMessage >>
        ELSE IF Len(national) > MaxLengthForNsn THEN << None, TooLongMessage >>
        ELSE IF is_valid_number(national)
        THEN << << "+", "9", "1" >> \o national, None >>
        ELSE << None, << "Invalid mobile number" >> >>

\* ------------------------- validators.py: the validators of the same fields
\* DataValidator.validate_and_format_phone(value), for a value whose "+", if
\* it has one, opens the country code 91: the value keeps its digits, "+" and
\* "-", gets "+91" in front unless it starts with "+", and is parsed; the
\* second parse, for a number without "+", is never reached
PhoneTooShortMessage ==
    << "Error validating phone: (3) The string supplied is too short to be a phone number." >>
PhoneTooLongMessage ==
    << "Error validating phone: (4) The string supplied is too long to be a phone number." >>

\* phonenumbers.format_number(number, INTERNATIONAL) of a valid mobile number
International(national) ==
    << "+", "9", "1", " " >> \o SubSeq(national, 1, 5) \o << " " >> \o SubSeq(national, 6, 10)

validate_and_format_phone(value) ==
    LET Parsed(national) ==
            IF Len(national) < MinLengthForNsn
            THEN Validated(None, PhoneTooShortMessage, "wrong")
            ELSE IF Len(national) > MaxLengthForNsn
            THEN Validated(None, PhoneTooLongMessage, "wrong")
            ELSE IF is_valid_number(national)
            THEN Validated(International(national), None, "correct")
            ELSE Validated(None, << "Invalid phone number" >>, "wrong")
        Cleaned(cleaned, digits) ==
            Parsed(IF cleaned # << >> /\ cleaned[1] = "+"
                   THEN SubSeq(digits, 3, Len(digits))
                   ELSE digits)
    IN  IF EmptyOrNotStr(value)
        THEN Validated(None, << "Invalid phone number format" >>, "wrong")
        ELSE Cleaned(SelectSeq(value, LAMBDA c : c \in Digit \cup { "+", "-" }),
                     SelectSeq(value, LAMBDA c : c \in Digit))

\* DataValidator.validate_and_format_email(value): validate_email of the
\* stripped value
DataValidator_validate_and_format_email(value, dns_ok) ==
    LET Returned(out) ==
            Validated(out[1], out[2], IF out[1] # None THEN "correct" ELSE "wrong")
    IN  IF EmptyOrNotStr(value)
        THEN Validated(None, << "Invalid email format" >>, "wrong")
        ELSE Returned(validate_and_format_email(StripChars(value, Whitespace), dns_ok))

\* re.match(r'^[A-Z][a-zA-Z'-]*$', part)
NamePartOk(part) ==
    /\ part # << >> /\ part[1] \in Upper
    /\ \A i \in DOMAIN part : part[i] \in Alpha \cup { "'", "-" }

\* str(name) of a name with one suffix at most: title, first, middle, last
\* and suffix, joined by single spaces
str(parsed) ==
    JoinSpaces(SelectSeq(<< JoinSpaces(parsed.title), parsed.first, parsed.middle,
                            parsed.last, JoinSpaces(parsed.suffix) >>,
                         LAMBDA part : part # << >>))

\* the loop over name_parts from part i on: the message of the first part
\* that fails, None when every part passes
RECURSIVE CheckParts(_, _, _)
CheckParts(name_parts, i, exempt) ==
    IF i > Len(name_parts) THEN None
    ELSE IF name_parts[i] \in exempt THEN CheckParts(name_parts, i + 1, exempt)
    ELSE IF ~NamePartOk(name_parts[i]) THEN << "Invalid name part: " >> \o name_parts[i]
    ELSE IF Len(name_parts[i]) < 2 THEN << "Name part too short: " >> \o name_parts[i]
    ELSE IF Len(name_parts[i]) > 20 THEN << "Name part too long: " >> \o name_parts[i]
    ELSE CheckParts(name_parts, i + 1, exempt)

\* DataValidator.validate_and_format_full_name(value), for a value without
\* commas. The loop reads name.titles and name.suffixes: has_lists says
\* whether the HumanName of the installed nameparser has these attributes
\* (as the lists of its title and suffix pieces); where it has not, reading
\* them raises AttributeError, which the except branch reports.
DataValidator_validate_and_format_full_name(value, has_lists) ==
    LET Checked(formatted, message) ==
            IF message = None THEN Validated(formatted, None, "correct")
            ELSE Validated(None, message, "wrong")
        Formatted(parsed, formatted, name_parts) ==
            IF parsed.first = << >> /\ parsed.last = << >>
            THEN Validated(None, << "Invalid name format" >>, "wrong")
            ELSE IF Len(name_parts) > 5
            THEN Validated(None, << "Name has too many parts" >>, "wrong")
            ELSE IF name_parts # << >> /\ ~has_lists
            THEN Validated(None,
                           << "Error validating name: 'HumanName' object has no attribute 'titles'" >>,
                           "wrong")
            ELSE Checked(formatted,
                         CheckParts(name_parts, 1, Range(parsed.title) \cup Range(parsed.suffix)))
        Named(parsed) == Formatted(parsed, str(parsed), Words(str(parsed)))
    IN  IF EmptyOrNotStr(value)
        THEN Validated(None, << "Invalid name format" >>, "wrong")
        ELSE Named(HumanName(StripChars(value, Whitespace)))

\* ------------------------------------------------------ validator inputs
\* '123456789012', '1234 5678 9012', '1234-5678-9012', '1234\t5678\t9012', '
\* 1234 5678-9012\n', '12345678901', '1234567890123', '1234-5678-90123',
\* '12345678901A'
AadharInputs ==
    { << "1", "2", "3", "4", "5", "6", "7", "8", "9", "0", "1", "2" >>,
      << "1", "2", "3", "4", " ", "5", "6", "7", "8", " ", "9", "0", "1", "2" >>,
      << "1", "2", "3", "4", "-", "5", "6", "7", "8", "-", "9", "0", "1", "2" >>,
      << "1", "2", "3", "4", "\t", "5", "6", "7", "8", "\t", "9", "0", "1", "2" >>,
      << " ", "1", "2", "3", "4", " ", "5", "6", "7", "8", "-", "9", "0", "1", "2", "\n" >>,
      << "1", "2", "3", "4", "5", "6", "7", "8", "9", "0", "1" >>,
      << "1", "2", "3", "4", "5", "6", "7", "8", "9", "0", "1", "2", "3" >>,
      << "1", "2", "3", "4", "-", "5", "6", "7", "8", "-", "9", "0", "1", "2", "3" >>,
      << "1", "2", "3", "4", "5", "6", "7", "8", "9", "0", "1", "A" >> }

\* 'ABCDE1234F', 'abcde1234f', 'abcde1234', 'ABCDE 1234F', 'ABCDE1234F\n',
\* 'ABCD1234EF', 'ABCDE-1234F'
PanInputs ==
    { << "A", "B", "C", "D", "E", "1", "2", "3", "4", "F" >>,
      << "a", "b", "c", "d", "e", "1", "2", "3", "4", "f" >>,
      << "a", "b", "c", "d", "e", "1", "2", "3", "4" >>,
      << "A", "B", "C", "D", "E", " ", "1", "2", "3", "4", "F" >>,
      << "A", "B", "C", "D", "E", "1", "2", "3", "4", "F", "\n" >>,
      << "A", "B", "C", "D", "1", "2", "3", "4", "E", "F" >>,
      << "A", "B", "C", "D", "E", "-", "1", "2", "3", "4", "F" >> }

\* 'A1234567', 'a12 34567', 'A1234', 'A123456789', 'A1234-67'
PassportInputs ==
    { << "A", "1", "2", "3", "4", "5", "6", "7" >>,
      << "a", "1", "2", " ", "3", "4", "5", "6", "7" >>,
      << "A", "1", "2", "3", "4" >>,
      << "A", "1", "2", "3", "4", "5", "6", "7", "8", "9" >>,
      << "A", "1", "2", "3", "4", "-", "6", "7" >> }

\* 'ABC1234567', 'abc 1234567', 'AB1234567', 'ABC12345678'
VoterIdInputs ==
    { << "A", "B", "C", "1", "2", "3", "4", "5", "6", "7" >>,
      << "a", "b", "c", " ", "1", "2", "3", "4", "5", "6", "7" >>,
      << "A", "B", "1", "2", "3", "4", "5", "6", "7" >>,
      << "A", "B", "C", "1", "2", "3", "4", "5", "6", "7", "8" >> }

\* 'MH12A1234', 'mh12 ab 1234567', 'MH12-A-1234', 'M12A1234',
\* 'MH1212345678901'
DrivingLicenseInputs ==
    { << "M", "H", "1", "2", "A", "1", "2", "3", "4" >>,
      << "m", "h", "1", "2", " ", "a", "b", " ", "1", "2", "3", "4", "5", "6", "7" >>,
      << "M", "H", "1", "2", "-", "A", "-", "1", "2", "3", "4" >>,
      << "M", "1", "2", "A", "1", "2", "3", "4" >>,
      << "M", "H", "1", "2", "1", "2", "3", "4", "5", "6", "7", "8", "9", "0", "1" >> }

\* '12345678', '12-34-56-78', 'A/C 123456789012345678', '1234567',
\* '1234567890123456789'
BankAccountInputs ==
    { << "1", "2", "3", "4", "5", "6", "7", "8" >>,
      << "1", "2", "-", "3", "4", "-", "5", "6", "-", "7", "8" >>,
      << "A", "/", "C", " ", "1", "2", "3", "4", "5", "6", "7", "8", "9", "0", "1", "2", "3", "4", "5", "6", "7", "8" >>,
      << "1", "2", "3", "4", "5", "6", "7" >>,
      << "1", "2", "3", "4", "5", "6", "7", "8", "9", "0", "1", "2", "3", "4", "5", "6", "7", "8", "9" >> }

\* '4111111111111111', '4111 1111 1111 1111', '4111-1111-1111-1111',
\* '4111111111111', '378282246310005', '5105105105105100',
\* '6011111111111117', '30569309025904', '3530111333300000',
\* '1234567890123456', '411111111111111', '5605105105105100'
CreditCardInputs ==
    { << "4", "1", "1", "1", "1", "1", "1", "1", "1", "1", "1", "1", "1", "1", "1", "1" >>,
      << "4", "1", "1", "1", " ", "1", "1", "1", "1", " ", "1", "1", "1", "1", " ", "1", "1", "1", "1" >>,
      << "4", "1", "1", "1", "-", "1", "1", "1", "1", "-", "1", "1", "1", "1", "-", "1", "1", "1", "1" >>,
      << "4", "1", "1", "1", "1", "1", "1", "1", "1", "1", "1", "1", "1" >>,
      << "3", "7", "8", "2", "8", "2", "2", "4", "6", "3", "1", "0", "0", "0", "5" >>,
      << "5", "1", "0", "5", "1", "0", "5", "1", "0", "5", "1", "0", "5", "1", "0", "0" >>,
      << "6", "0", "1", "1", "1", "1", "1", "1", "1", "1", "1", "1", "1", "1", "1", "7" >>,
      << "3", "0", "5", "6", "9", "3", "0", "9", "0", "2", "5", "9", "0", "4" >>,
      << "3", "5", "3", "0", "1", "1", "1", "3", "3", "3", "3", "0", "0", "0", "0", "0" >>,
      << "1", "2", "3", "4", "5", "6", "7", "8", "9", "0", "1", "2", "3", "4", "5", "6" >>,
      << "4", "1", "1", "1", "1", "1", "1", "1", "1", "1", "1", "1", "1", "1", "1" >>,
      << "5", "6", "0", "5", "1", "0", "5", "1", "0", "5", "1", "0", "5", "1", "0", "0" >> }

\* '192.168.1.1', '255.255.255.255', '256.1.1.1', '1.2.3', '01.2.3.4',
\* '1.2.3.4\n', ' 1.2.3.4', '1.2.3.4.5', '249.0.19.7'
IpInputs ==
    { << "1", "9", "2", ".", "1", "6", "8", ".", "1", ".", "1" >>,
      << "2", "5", "5", ".", "2", "5", "5", ".", "2", "5", "5", ".", "2", "5", "5" >>,
      << "2", "5", "6", ".", "1", ".", "1", ".", "1" >>,
      << "1", ".", "2", ".", "3" >>,
      << "0", "1", ".", "2", ".", "3", ".", "4" >>,
      << "1", ".", "2", ".", "3", ".", "4", "\n" >>,
      << " ", "1", ".", "2", ".", "3", ".", "4" >>,
      << "1", ".", "2", ".", "3", ".", "4", ".", "5" >>,
      << "2", "4", "9", ".", "0", ".", "1", "9", ".", "7" >> }

\* '9876543210', '+91 98765 43210', '919876543210', '+91-6876543210',
\* '9198765432', '5876543210', '98765', '', '9'
MobileInputs ==
    { << "9", "8", "7", "6", "5", "4", "3", "2", "1", "0" >>,
      << "+", "9", "1", " ", "9", "8", "7", "6", "5", " ", "4", "3", "2", "1", "0" >>,
      << "9", "1", "9", "8", "7", "6", "5", "4", "3", "2", "1", "0" >>,
      << "+", "9", "1", "-", "6", "8", "7", "6", "5", "4", "3", "2", "1", "0" >>,
      << "9", "1", "9", "8", "7", "6", "5", "4", "3", "2" >>,
      << "5", "8", "7", "6", "5", "4", "3", "2", "1", "0" >>,
      << "9", "8", "7", "6", "5" >>,
      << >>,
      << "9" >> }

\* 'John Smith', 'Dr. John Smith', 'John F Kennedy', 'Mr Smith', 'Sir John',
\* 'John Smith Jr', ' John  Smith,', 'J', '!!!', 'Al B'
NameInputs ==
    { << "J", "o", "h", "n", " ", "S", "m", "i", "t", "h" >>,
      << "D", "r", ".", " ", "J", "o", "h", "n", " ", "S", "m", "i", "t", "h" >>,
      << "J", "o", "h", "n", " ", "F", " ", "K", "e", "n", "n", "e", "d", "y" >>,
      << "M", "r", " ", "S", "m", "i", "t", "h" >>,
      << "S", "i", "r", " ", "J", "o", "h", "n" >>,
      << "J", "o", "h", "n", " ", "S", "m", "i", "t", "h", " ", "J", "r" >>,
      << " ", "J", "o", "h", "n", " ", " ", "S", "m", "i", "t", "h", "," >>,
      << "J" >>,
      << "!", "!", "!" >>,
      << "A", "l", " ", "B" >> }

\* 'a@b.co', 'A@B.CO', '.a@b.co', 'a..b@c.io', 'a@-b.co', 'x.y@D.Io'
EmailInputs ==
    { << "a", "@", "b", ".", "c", "o" >>,
      << "A", "@", "B", ".", "C", "O" >>,
      << ".", "a", "@", "b", ".", "c", "o" >>,
      << "a", ".", ".", "b", "@", "c", ".", "i", "o" >>,
      << "a", "@", "-", "b", ".", "c", "o" >>,
      << "x", ".", "y", "@", "D", ".", "I", "o" >> }

\* the validators of DataValidator that take any input as it comes
UnguardedValidators ==
    { "DataValidator.validate_and_format_aadhar", "DataValidator.validate_and_format_pan",
      "DataValidator.validate_and_format_passport",
      "DataValidator.validate_and_format_voter_id",
      "DataValidator.validate_and_format_driving_license",
      "DataValidator.validate_and_format_bank_account",
      "DataValidator.validate_and_format_credit_card",
      "DataValidator.validate_and_format_ip" }

\* the validators app.py defines for itself, which return (formatted, error)
AppValidators ==
    { "validate_and_format_full_name", "validate_and_format_mobile_number",
      "validate_and_format_email" }

\* the strings each validator is called on
StringInputs(validator) ==
    CASE validator = "DataValidator.validate_and_format_aadhar" -> AadharInputs
      [] validator = "DataValidator.validate_and_format_pan" -> PanInputs
      [] validator = "DataValidator.validate_and_format_passport" -> PassportInputs
      [] validator = "DataValidator.validate_and_format_voter_id" -> VoterIdInputs
      [] validator = "DataValidator.validate_and_format_driving_license" ->
             DrivingLicenseInputs
      [] validator = "DataValidator.validate_and_format_bank_account" -> BankAccountInputs
      [] validator = "DataValidator.validate_and_format_credit_card" -> CreditCardInputs
      [] validator = "DataValidator.validate_and_format_ip" -> IpInputs
      [] validator = "validate_and_format_mobile_number" -> MobileInputs
      [] validator = "validate_and_format_full_name" -> NameInputs
      [] validator = "validate_and_format_email" -> EmailInputs
      [] validator = "DataValidator.validate_and_format_phone" -> MobileInputs
      [] validator = "DataValidator.validate_and_format_full_name" ->
             { name \in NameInputs : "," \notin Range(name) }
      [] validator = "DataValidator.validate_and_format_email" -> EmailInputs
      [] OTHER -> { }

\* a validator call: every DataValidator validator on the empty string, on
\* None and on a number; its date validator on these inputs only; the
\* resolver matters to email, the lookup to the name validator of app.py,
\* the attributes of HumanName to the name validator of DataValidator
ValidateCalls ==
    { c \in [ validator : Range(registry) \cup AppValidators,
              value : UNION { StringInputs(v) : v \in UnguardedValidators \cup AppValidators }
                        \cup { << >>, None, NumberInput },
              dns_ok : BOOLEAN, genderize : GenderizeAnswers, has_lists : BOOLEAN ] :
        /\ \/ c.value \in StringInputs(c.validator)
           \/ c.validator \in Range(registry) /\ c.value \in { << >>, None, NumberInput }
        /\ c.validator \notin { "validate_and_format_email",
                                 "DataValidator.validate_and_format_email" } => c.dns_ok
        /\ c.validator # "validate_and_format_full_name" => c.genderize = "error"
        /\ c.validator # "DataValidator.validate_and_format_full_name" => c.has_lists }

\* ------------------------------------------------------- validator calls
\* the result of calling the validator on the value
Apply(validator, value, dns_ok, genderize, has_lists) ==
    CASE validator = "DataValidator.validate_and_format_aadhar" ->
             validate_and_format_aadhar(value)
      [] validator = "DataValidator.validate_and_format_pan" -> validate_and_format_pan(value)
      [] validator = "DataValidator.validate_and_format_passport" ->
             validate_and_format_passport(value)
      [] validator = "DataValidator.validate_and_format_voter_id" ->
             validate_and_format_voter_id(value)
      [] validator = "DataValidator.validate_and_format_driving_license" ->
             validate_and_format_driving_license(value)
      [] validator = "DataValidator.validate_and_format_bank_account" ->
             validate_and_format_bank_account(value)
      [] validator = "DataValidator.validate_and_format_credit_card" ->
             validate_and_format_credit_card(value)
      [] validator = "DataValidator.validate_and_format_ip" -> validate_and_format_ip(value)
      [] validator \in DOMAIN EarlyReturnMessage /\ EmptyOrNotStr(value) ->
             Validated(None, EarlyReturnMessage[validator], "wrong")
      [] validator = "DataValidator.validate_and_format_phone" ->
             validate_and_format_phone(value)
      [] validator = "DataValidator.validate_and_format_email" ->
             DataValidator_validate_and_format_email(value, dns_ok)
      [] validator = "DataValidator.validate_and_format_full_name" ->
             DataValidator_validate_and_format_full_name(value, has_lists)
      [] validator = "validate_and_format_mobile_number" ->
             validate_and_format_mobile_number(value)
      [] validator = "validate_and_format_full_name" ->
             validate_and_format_full_name(value, genderize)
      [] validator = "validate_and_format_email" -> validate_and_format_email(value, dns_ok)

\* requests.get has no timeout: the call returns when the lookup is answered
Blocked(validator, value, genderize) ==
    /\ validator = "validate_and_format_full_name"
    /\ genderize = "silent"
    /\ ReachesLookup(value)

\* the value a validator returned, absent when it rejected or raised
ValueOf(validator, out) == IF validator \in AppValidators THEN out[1] ELSE out.value

InitValidate ==
    /\ extracted_data = << >>
    /\ request = Idle
    /\ response = Idle
    /\ returned = << >>
    /\ parts = 0
    /\ call \in ValidateCalls
    /\ results = << >>
    /\ pc = "call"

\* the validator is called on the input
Validate ==
    /\ pc = "call"
    /\ ~Blocked(call.validator, call.value, call.genderize)
    /\ pc' = "done"
    /\ results' = << Apply(call.validator, call.value, call.dns_ok, call.genderize,
                            call.has_lists) >>
    /\ UNCHANGED << extracted_data, request, response, returned, call, parts >>

\* the validator is called again, on the value it returned; a name is looked
\* up again, and that lookup has an answer of its own
Revalidate ==
    /\ pc = "done"
    /\ Truthy(ValueOf(call.validator, results[1]))
    /\ \E genderize \in GenderizeAnswers :
           LET value == ValueOf(call.validator, results[1])
           IN  /\ call.validator # "validate_and_format_full_name" => genderize = "error"
               /\ ~Blocked(call.validator, value, genderize)
               /\ results' = Append(results, Apply(call.validator, value, call.dns_ok,
                                                   genderize, call.has_lists))
    /\ pc' = "again"
    /\ UNCHANGED << extracted_data, request, response, returned, call, parts >>

NextValidate == Validate \/ Revalidate

SpecValidate == InitValidate /\ [][NextValidate]_vars

\* -------------------------------------------------- named-entity detection
\* "Acme, John F Kennedy"
TextNames == << "A", "c", "m", "e", ",", " ", "J", "o", "h", "n", " ", "F", " ", "K", "e", "n", "n", "e", "d", "y" >>
\* "Mr Smith, John Smith, John Smith"
TextNameTwice ==
    << "M", "r", " ", "S", "m", "i", "t", "h", ",", " ", "J", "o", "h", "n", " ", "S", "m", "i", "t", "h", ",", " " >>
       \o << "J", "o", "h", "n", " ", "S", "m", "i", "t", "h" >>
\* "9876543210 +916876543210"
TextPhones ==
    << "9", "8", "7", "6", "5", "4", "3", "2", "1", "0", " ", "+", "9", "1", "6", "8", "7", "6", "5", "4", "3", "2", "1", "0" >>

Entity(text, label_) == [ text |-> text, label_ |-> label_ ]

\* nlp(text).ents: the entities en_core_web_sm reports, which the model
\* gives for the page texts that have any
nlp(text) ==
    CASE text = TextNames ->
             << Entity(<< "A", "c", "m", "e" >>, "ORG"),
                Entity(<< "J", "o", "h", "n", " ", "F", " ", "K", "e", "n", "n", "e", "d", "y" >>, "PERSON") >>
      [] text = TextNameTwice ->
             << Entity(<< "M", "r", " ", "S", "m", "i", "t", "h" >>, "PERSON"),
                Entity(<< "J", "o", "h", "n", " ", "S", "m", "i", "t", "h" >>, "PERSON"),
                Entity(<< "J", "o", "h", "n", " ", "S", "m", "i", "t", "h" >>, "PERSON") >>
      [] OTHER -> << >>

\* r'(?:\+91|91)?[6-9]\d{9}' and r'(?:\+91|91)?[789]\d{9}'
CountryCode == Optional(<< Alt(<< << Lit("+"), Lit("9"), Lit("1") >>, << Lit("9"), Lit("1") >> >>) >>)
mobile_patterns ==
    << << CountryCode, Cls({ "6", "7", "8", "9" }, 1, 1), Cls(Digit, 9, 9) >>,
       << CountryCode, Cls({ "7", "8", "9" }, 1, 1), Cls(Digit, 9, 9) >> >>

\* ------------------------------------------------------------- extractor
\* A document is [filename, pages, fault, at]: pages is what page.get_text()
\* returns for each page; fault is what goes wrong when the document is
\* handled ("none"; "save": file.save raises; "open": fitz.open raises;
\* "scan": get_text raises on page `at`).

Record(value, page, status, message, pattern_type) ==
    [ value |-> value, page |-> page, status |-> status,
      validation_message |-> message, pattern_type |-> pattern_type ]

\* CandidateRecords without the elif branch: a rejected candidate is dropped
CandidateRecords_accepted_only(raw, validated, page, pattern_type) ==
    IF Truthy(validated[1])
    THEN << Record(validated[1], page, "correct", None, pattern_type) >>
    ELSE << >>

\* the if formatted / elif error of the name, mobile and email flows
CandidateRecords(raw, validated, page, pattern_type) ==
    IF Truthy(validated[1])
    THEN << Record(validated[1], page, "correct", None, pattern_type) >>
    ELSE IF Truthy(validated[2])
    THEN << Record(raw, page, "incorrect", validated[2], pattern_type) >>
    ELSE << >>

RECURSIVE EmailRecords(_, _, _, _)
EmailRecords(matches, i, page, dns_ok) ==
    IF i > Len(matches) THEN << >>
    ELSE CandidateRecords(matches[i], validate_and_format_email(matches[i], dns_ok),
                          page, "email_address")
         \o EmailRecords(matches, i + 1, page, dns_ok)

\* CustomRecords as extract_data builds them: a text already seen on the
\* page is not reported again
CustomRecords_seen_values(matches, page) ==
    LET first == SelectSeq([ i \in DOMAIN matches |-> i ],
                           LAMBDA i : \A j \in 1..(i - 1) : matches[j] # matches[i])
    IN  [ k \in DOMAIN first |->
            Record(matches[first[k]], page, "correct", None, "custom_search") ]

CustomRecords(matches, page) ==
    [ i \in DOMAIN matches |-> Record(matches[i], page, "correct", None, "custom_search") ]

\* the PERSON entities of a page that are validated: the first occurrence on
\* the page of each non-empty stripped text (seen_names starts empty on
\* every page)
NameCandidates(ents) ==
    { i \in DOMAIN ents :
        /\ ents[i].label_ = "PERSON"
        /\ StripChars(ents[i].text, Whitespace) # << >>
        /\ \A j \in 1..(i - 1) :
               ents[j].label_ = "PERSON" =>
                   StripChars(ents[j].text, Whitespace) # StripChars(ents[i].text, Whitespace) }

\* the answer the lookup for the i-th entity of the page gets; a validation
\* that makes no lookup reads none
AnswerAt(genderize, page, i) ==
    IF << page, i >> \in DOMAIN genderize THEN genderize[<< page, i >>] ELSE "error"

\* the full_name flow over the entities from the i-th on
RECURSIVE NameRecords(_, _, _, _)
NameRecords(ents, i, page, genderize) ==
    IF i > Len(ents) THEN << >>
    ELSE (IF i \in NameCandidates(ents)
          THEN LET name == StripChars(ents[i].text, Whitespace)
               IN  CandidateRecords(name,
                       validate_and_format_full_name(name, AnswerAt(genderize, page, i)),
                       page, "full_name")
          ELSE << >>)
         \o NameRecords(ents, i + 1, page, genderize)

\* the mobile_number flow: the matches of one pattern, from the i-th on
RECURSIVE MobileRecords(_, _, _)
MobileRecords(matches, i, page) ==
    IF i > Len(matches) THEN << >>
    ELSE CandidateRecords(matches[i], validate_and_format_mobile_number(matches[i]),
                          page, "mobile_number")
         \o MobileRecords(matches, i + 1, page)

\* the body of the page loop for one page with text: the records appended
PageRecords(text, page, pattern_type, search_term, dns_ok, genderize) ==
    IF pattern_type = "full_name"
    THEN NameRecords(nlp(text), 1, page, genderize)
    ELSE IF pattern_type = "mobile_number"
    THEN MobileRecords(finditer(mobile_patterns[1], text), 1, page)
         \o MobileRecords(finditer(mobile_patterns[2], text), 1, page)
    ELSE IF pattern_type = "email_address"
    THEN EmailRecords(finditer(email_pattern, text), 1, page, dns_ok)
    ELSE IF pattern_type = "custom_search" /\ Truthy(search_term)
    THEN CustomRecords(finditer_literal(search_term, text), page)
    ELSE << >>

\* ScanPages with a page loop that ends at the first page without text
RECURSIVE ScanPages_break(_, _, _, _, _, _, _)
ScanPages_break(doc, p, acc, pattern_type, search_term, dns_ok, genderize) ==
    IF p > Len(doc.pages) THEN [ raised |-> FALSE, results |-> acc ]
    ELSE IF doc.fault = "scan" /\ doc.at = p THEN [ raised |-> TRUE, results |-> acc ]
    ELSE IF IsBlank(doc.pages[p])
    THEN [ raised |-> FALSE, results |-> acc ]
    ELSE ScanPages_break(doc, p + 1,
                   acc \o PageRecords(doc.pages[p], p, pattern_type, search_term, dns_ok,
                                      genderize),
                   pattern_type, search_term, dns_ok, genderize)

\* the page loop from page p on, with the records collected so far; an
\* exception leaves the loop with raised = TRUE
RECURSIVE ScanPages(_, _, _, _, _, _, _)
ScanPages(doc, p, acc, pattern_type, search_term, dns_ok, genderize) ==
    IF p > Len(doc.pages) THEN [ raised |-> FALSE, results |-> acc ]
    ELSE IF doc.fault = "scan" /\ doc.at = p THEN [ raised |-> TRUE, results |-> acc ]
    ELSE IF IsBlank(doc.pages[p])
    THEN ScanPages(doc, p + 1, acc, pattern_type, search_term, dns_ok, genderize)
    ELSE ScanPages(doc, p + 1,
                   acc \o PageRecords(doc.pages[p], p, pattern_type, search_term, dns_ok,
                                      genderize),
                   pattern_type, search_term, dns_ok, genderize)

\* extract_data_from_pdf with an except branch that returns what was
\* collected before the failure
extract_data_from_pdf_partial(doc, pattern_type, search_term, dns_ok, genderize) ==
    IF doc.fault = "open" THEN << >>
    ELSE ScanPages(doc, 1, << >>, pattern_type, search_term, dns_ok, genderize).results

\* extract_data_from_pdf(pdf_path, pattern_type, search_term), given what the
\* resolver and the name lookups answer during the call
extract_data_from_pdf(doc, pattern_type, search_term, dns_ok, genderize) ==
    IF doc.fault = "open" THEN << >>
    ELSE LET Caught(scan) == IF scan.raised THEN << >> ELSE scan.results
         IN  Caught(ScanPages(doc, 1, << >>, pattern_type, search_term, dns_ok, genderize))

\* the pages of a document that have text
TextPages(doc) == { p \in DOMAIN doc.pages : ~IsBlank(doc.pages[p]) }

\* the lookups a full_name extraction of the document can make: one for each
\* validated entity whose name has a first name, named by page and position
LookupSites(doc) ==
    UNION { { << p, i >> :
                i \in { i \in NameCandidates(nlp(doc.pages[p])) :
                          ReachesLookup(StripChars(nlp(doc.pages[p])[i].text, Whitespace)) } } :
            p \in TextPages(doc) }

\* requests.get has no timeout: the extraction does not return while a lookup
\* it has made, on a page it reaches, stays unanswered
Blocks(doc, pattern_type, genderize) ==
    /\ pattern_type = "full_name"
    /\ doc.fault # "open"
    /\ \E site \in DOMAIN genderize :
           /\ genderize[site] = "silent"
           /\ doc.fault = "scan" => site[1] < doc.at

\* ----------------------------------------------------------------- inputs
\* page texts
TextBlank == << " ", "\n" >>
\* "In in a@b.co in"
TextInvoice == << "I","n"," ","i","n"," ","a","@","b",".","c","o"," ","i","n" >>
\* "a@b.co a@b.co"
TextTwice == << "a","@","b",".","c","o"," ","a","@","b",".","c","o" >>
\* "A@B.CO .a@b.co"
TextCase == << "A","@","B",".","C","O"," ",".","a","@","b",".","c","o" >>
\* "ABCDE1234F ABC1234567 aAa"
TextIds == << "A","B","C","D","E","1","2","3","4","F"," ",
              "A","B","C","1","2","3","4","5","6","7"," ","a","A","a" >>

TextEmpty == << >>

\* the page texts of the documents a field is extracted from: pages without
\* text, pages with candidates of the field and a page with none
PageTexts(pattern_type) ==
    { TextEmpty, TextBlank } \cup
        CASE pattern_type = "full_name" -> { TextNames, TextNameTwice }
          [] pattern_type = "mobile_number" -> { TextPhones, TextIds }
          [] pattern_type \in { "email_address", "custom_search" } ->
                 { TextInvoice, TextTwice, TextCase }
          [] OTHER -> { TextIds, TextInvoice }

\* search terms: absent, empty, "in", "aa"
SearchTerms == { None, << >>, << "i","n" >>, << "a","a" >> }

SeqsUpTo(S, n) == UNION { [1..k -> S] : k \in 0..n }

PdfPath == << "u",".","p","d","f" >>

\* the documents extract_data_from_pdf is called on
CallDocs(pattern_type) ==
    { [ filename |-> PdfPath, pages |-> ps, fault |-> f, at |-> a ] :
        ps \in SeqsUpTo(PageTexts(pattern_type), MaxPages),
        f \in { "none", "open", "scan" }, a \in 0..MaxPages }

CallFields ==
    { "full_name", "mobile_number", "email_address", "custom_search", "pan_number",
      "voter_id_number", "passport_number", "unknown_field" }

\* no lookup is made
NoLookups == << >>

\* a well-formed call: the fault position is a page of the document, the
\* search term comes with custom_search, the resolver matters to email only
CallOk(c) ==
    /\ (c.doc.fault = "scan") = (c.doc.at \in DOMAIN c.doc.pages)
    /\ c.doc.fault # "scan" => c.doc.at = 0
    /\ c.pattern_type # "custom_search" => c.search_term = None
    /\ c.pattern_type # "email_address" => c.dns_ok

\* the calls: every lookup a full_name extraction can make has an answer of
\* its own
Calls ==
    UNION { { [ doc |-> c.doc, pattern_type |-> c.pattern_type,
                search_term |-> c.search_term, dns_ok |-> c.dns_ok, genderize |-> g ] :
              g \in IF c.pattern_type = "full_name"
                    THEN [ LookupSites(c.doc) -> GenderizeAnswers ]
                    ELSE { NoLookups } } :
            c \in { c \in UNION { [ doc : CallDocs(field), pattern_type : { field },
                                     search_term : SearchTerms, dns_ok : BOOLEAN ] :
                                   field \in CallFields } : CallOk(c) } }

\* ------------------------------------------------- direct extractor calls
InitExtract ==
    /\ extracted_data = << >>
    /\ request = Idle
    /\ response = Idle
    /\ returned = << >>
    /\ parts = 0
    /\ call \in Calls
    /\ results = << >>
    /\ pc = "call"

\* the call returns: no lookup it makes waits for ever
Returns ==
    /\ pc = "call"
    /\ ~Blocks(call.doc, call.pattern_type, call.genderize)
    /\ pc' = "done"

ExtractCall ==
    /\ Returns
    /\ results' = extract_data_from_pdf(call.doc, call.pattern_type, call.search_term,
                                        call.dns_ok, call.genderize)
    /\ UNCHANGED << extracted_data, request, response, returned, call, parts >>

NextExtract == ExtractCall

SpecExtract == InitExtract /\ [][NextExtract]_vars

\* The same calls made by a caller: the caller invokes extract_data_from_pdf
\* and waits for it to return.
InitCaller ==
    /\ extracted_data = << >>
    /\ request = Idle
    /\ response = Idle
    /\ returned = << >>
    /\ parts = 0
    /\ call = Idle
    /\ results = << >>
    /\ pc = "idle"

Invoke ==
    /\ pc = "idle"
    /\ pc' = "call"
    /\ call' \in Calls
    /\ UNCHANGED << extracted_data, request, response, returned, results, parts >>

NextCaller == Invoke \/ ExtractCall

\* once invoked, the call runs whenever it can: it is all its thread does.
\* Every step that returns is an ExtractCall step, so this is fairness of
\* ExtractCall.
SpecCaller == InitCaller /\ [][NextCaller]_vars /\ WF_pc(Returns)

\* -------------------------------------------------------------- filenames
\* "_".join(s.split()) for an s without leading or trailing whitespace: each
\* run of whitespace becomes one underscore
RECURSIVE JoinWords(_)
JoinWords(s) ==
    IF s = << >> THEN s
    ELSE IF s[1] \in Whitespace
    THEN IF Len(s) > 1 /\ s[2] \in Whitespace THEN JoinWords(Tail(s))
         ELSE << "_" >> \o JoinWords(Tail(s))
    ELSE << s[1] >> \o JoinWords(Tail(s))

FilenameChar == Alpha \cup Digit \cup { "_", ".", "-" }
PathSeparator(c) == c = "/"

\* werkzeug.utils.secure_filename: path separators become spaces, words are
\* joined by underscores, characters outside [A-Za-z0-9_.-] are dropped, and
\* leading and trailing dots and underscores are stripped
secure_filename(name) ==
    LET spaced == [ i \in DOMAIN name |-> IF PathSeparator(name[i]) THEN " " ELSE name[i] ]
        joined == JoinWords(StripChars(spaced, Whitespace))
        kept   == SelectSeq(joined, LAMBDA c : c \in FilenameChar)
    IN  StripChars(kept, { ".", "_" })

DotPdf == << ".", "p", "d", "f" >>

\* file.filename.endswith('.pdf')
EndsWithPdf(name) ==
    Len(name) >= Len(DotPdf) /\ SubSeq(name, Len(name) - Len(DotPdf) + 1, Len(name)) = DotPdf

\* result['filename'] = filename
Tag(r, filename) ==
    [ value |-> r.value, page |-> r.page, status |-> r.status,
      validation_message |-> r.validation_message, pattern_type |-> r.pattern_type,
      filename |-> filename ]

\* TagAll with a loop that stops one record early
TagAll_skip_last(rs, filename) ==
    [ i \in DOMAIN rs |-> IF i < Len(rs) THEN Tag(rs[i], filename) ELSE rs[i] ]

TagAll(rs, filename) == [ i \in DOMAIN rs |-> Tag(rs[i], filename) ]

\* ------------------------------------------------------------ /upload
SaveMessage == << "file.save failed" >>

Failure(message) == [ kind |-> "json", success |-> FALSE, error |-> message ]

\* the response of upload_file and the records it appends to the log
upload_file_result(req) ==
    IF req.files = << >>
    THEN [ response |-> Failure(<< "No file part" >>), stored |-> << >> ]
    ELSE LET Handled(file, filename, tagged) ==
                 IF file.filename = << >>
                 THEN [ response |-> Failure(<< "No selected file" >>), stored |-> << >> ]
                 ELSE IF ~EndsWithPdf(file.filename)
                 THEN [ response |-> Failure(<< "Invalid file type" >>), stored |-> << >> ]
                 ELSE IF file.fault = "save"
                 THEN [ response |-> Failure(SaveMessage), stored |-> << >> ]
                 ELSE [ response |-> [ kind |-> "json", success |-> TRUE, data |-> tagged,
                                       filename |-> filename ],
                        stored |-> tagged ]
             Saved(file, filename) ==
                 Handled(file, filename,
                         TagAll(extract_data_from_pdf(file, req.pattern_type, req.search_term,
                                                      req.dns_ok, NoLookups),
                                filename))
         IN  Saved(req.files[1], secure_filename(req.files[1].filename))

\* --------------------------------------------------- /upload-multiple
InvalidTypeMessage == << "Invalid file type (only PDF files are supported)" >>

\* ProcessFiles with all_results built by putting each document's records in
\* front of those collected so far
RECURSIVE ProcessFiles_prepend(_, _, _)
ProcessFiles_prepend(req, i, acc) ==
    IF i > Len(req.files) THEN acc
    ELSE LET file == req.files[i]
             filename == secure_filename(file.filename)
             tagged == TagAll(extract_data_from_pdf(file, req.pattern_type,
                                                    req.search_term, req.dns_ok, NoLookups),
                              filename)
         IN  IF file.filename # << >> /\ EndsWithPdf(file.filename)
             THEN IF file.fault = "save"
                  THEN ProcessFiles_prepend(req, i + 1,
                         [ acc EXCEPT !.errors =
                             Append(@, [ filename |-> file.filename, error |-> SaveMessage ]) ])
                  ELSE ProcessFiles_prepend(req, i + 1,
                         [ acc EXCEPT
                             !.all_results = tagged \o @,
                             !.processed_files =
                                 Append(@, [ filename |-> filename,
                                             results_count |-> Len(tagged) ]) ])
             ELSE ProcessFiles_prepend(req, i + 1,
                    [ acc EXCEPT !.errors =
                        Append(@, [ filename |-> file.filename,
                                    error |-> InvalidTypeMessage ]) ])

\* the for loop over the uploaded files from file i on; acc holds
\* all_results, processed_files and errors
RECURSIVE ProcessFiles(_, _, _)
ProcessFiles(req, i, acc) ==
    IF i > Len(req.files) THEN acc
    ELSE LET Handled(file, filename, tagged) ==
                 IF file.filename # << >> /\ EndsWithPdf(file.filename)
                 THEN IF file.fault = "save"
                      THEN [ acc EXCEPT !.errors =
                               Append(@, [ filename |-> file.filename,
                                           error |-> SaveMessage ]) ]
                      ELSE [ acc EXCEPT
                               !.all_results = @ \o tagged,
                               !.processed_files =
                                   Append(@, [ filename |-> filename,
                                               results_count |-> Len(tagged) ]) ]
                 ELSE [ acc EXCEPT !.errors =
                          Append(@, [ filename |-> file.filename,
                                      error |-> InvalidTypeMessage ]) ]
             Saved(file, filename) ==
                 Handled(file, filename,
                         TagAll(extract_data_from_pdf(file, req.pattern_type, req.search_term,
                                                      req.dns_ok, NoLookups),
                                filename))
         IN  ProcessFiles(req, i + 1,
                          Saved(req.files[i], secure_filename(req.files[i].filename)))

upload_multiple_files_result(req) ==
    IF req.files = << >>
    THEN [ response |-> Failure(<< "No files part" >>), stored |-> << >> ]
    ELSE IF req.files[1].filename = << >>
    THEN [ response |-> Failure(<< "No selected files" >>), stored |-> << >> ]
    ELSE LET Reply(done) ==
                 [ response |-> [ kind |-> "json", success |-> TRUE,
                                  data |-> done.all_results,
                                  processed_files |-> done.processed_files,
                                  errors |-> done.errors,
                                  total_files |-> Len(req.files),
                                  successful_files |-> Len(done.processed_files),
                                  failed_files |-> Len(done.errors) ],
                   stored |-> done.all_results ]
         IN  Reply(ProcessFiles(req, 1, [ all_results |-> << >>,
                                          processed_files |-> << >>,
                                          errors |-> << >> ]))

\* ------------------------------------------------------ /dashboard-data
UnknownFile == << "Unknown File" >>

\* item.get('filename', 'Unknown File')
FilenameOf(item) == IF "filename" \in DOMAIN item THEN item.filename ELSE UnknownFile

CountCorrect(log) == Cardinality({ i \in DOMAIN log : log[i].status = "correct" })

\* round(valid / total * 100, 2) if total > 0 else 0, in hundredths of a
\* percent (no quotient of a log shorter than 32 records falls on a tie)
SuccessRate(valid, total) ==
    IF total > 0 THEN (2 * valid * 10000 + total) \div (2 * total) ELSE 0

\* GroupByFile without the else branch that counts a record as invalid
RECURSIVE GroupByFile_no_else(_, _, _)
GroupByFile_no_else(log, i, files_processed) ==
    IF i > Len(log) THEN files_processed
    ELSE LET name == FilenameOf(log[i])
             old == IF name \in DOMAIN files_processed
                    THEN files_processed[name]
                    ELSE [ total |-> 0, valid |-> 0, invalid |-> 0 ]
             new == IF log[i].status = "correct"
                    THEN [ old EXCEPT !.total = @ + 1, !.valid = @ + 1 ]
                    ELSE [ old EXCEPT !.total = @ + 1 ]
         IN  GroupByFile_no_else(log, i + 1,
                 [ f \in DOMAIN files_processed \cup { name } |->
                     IF f = name THEN new ELSE files_processed[f] ])

\* the grouping loop from item i on: files_processed after the remaining items
RECURSIVE GroupByFile(_, _, _)
GroupByFile(log, i, files_processed) ==
    IF i > Len(log) THEN files_processed
    ELSE LET name == FilenameOf(log[i])
             old == IF name \in DOMAIN files_processed
                    THEN files_processed[name]
                    ELSE [ total |-> 0, valid |-> 0, invalid |-> 0 ]
             new == IF log[i].status = "correct"
                    THEN [ old EXCEPT !.total = @ + 1, !.valid = @ + 1 ]
                    ELSE [ old EXCEPT !.total = @ + 1, !.invalid = @ + 1 ]
         IN  GroupByFile(log, i + 1,
                 [ f \in DOMAIN files_processed \cup { name } |->
                     IF f = name THEN new ELSE files_processed[f] ])

NoFiles == [ f \in { } |-> 0 ]

dashboard_data_summary(log) ==
    LET total == Len(log)
        valid == CountCorrect(log)
        files_processed == GroupByFile(log, 1, NoFiles)
    IN  [ total |-> total, valid |-> valid, invalid |-> total - valid,
          success_rate |-> SuccessRate(valid, total),
          files_processed |-> Cardinality(DOMAIN files_processed),
          files_breakdown |-> files_processed ]

\* ----------------------------------------------------------- /dashboard
\* the items dashboard() hands to DataVisualizer
Formatted(item) ==
    [ type |-> item.pattern_type, value |-> item.value, page |-> item.page,
      status |-> item.status, validation_message |-> item.validation_message,
      filename |-> FilenameOf(item) ]

\* DataVisualizer.create_summary_stats over the formatted items
create_summary_stats(data) ==
    LET total_items == Len(data)
        valid_items == Cardinality({ i \in DOMAIN data : data[i].status = "correct" })
    IN  [ total_items |-> total_items, valid_items |-> valid_items,
          invalid_items |-> total_items - valid_items,
          unique_files |-> Cardinality({ data[i].filename : i \in DOMAIN data }),
          unique_types |-> Cardinality({ data[i].type : i \in DOMAIN data }),
          success_rate |-> SuccessRate(valid_items, total_items) ]

\* --------------------------------------------------------- app inputs
\* "a b.pdf", "c.pdf", "n.txt" and the empty filename of an empty file part
NameSpaced == << "a", " ", "b", ".", "p", "d", "f" >>
NamePlain == << "c", ".", "p", "d", "f" >>
NameText == << "n", ".", "t", "x", "t" >>
FileNames == { NameSpaced, NamePlain, NameText, << >> }

LongPages == << TextInvoice, TextCase >>
ShortPages == << TextTwice >>

\* uploaded file parts: a readable PDF under each PDF name, a PDF that cannot
\* be saved, a PDF that cannot be opened, and the two parts that are no PDF
FileOk(d) ==
    /\ d.filename = NameSpaced => d.pages = LongPages /\ d.fault = "none"
    /\ d.filename = NamePlain /\ d.fault = "none" => d.pages = ShortPages
    /\ d.fault # "none" => d.pages = LongPages
    /\ ~EndsWithPdf(d.filename) => d.pages = ShortPages /\ d.fault = "none"

Files ==
    { d \in [ filename : FileNames, pages : { LongPages, ShortPages },
              fault : { "none", "save", "open" }, at : { 0 } ] : FileOk(d) }

FormFields == { "email_address", "custom_search", "unknown_field" }
FormTerms == { None, << "i", "n" >> }

FormOk(r) ==
    /\ r.pattern_type # "custom_search" => r.search_term = None
    /\ r.pattern_type # "email_address" => r.dns_ok

Requests(kind, n) ==
    { r \in [ kind : { kind }, files : SeqsUpTo(Files, n), pattern_type : FormFields,
              search_term : FormTerms, dns_ok : BOOLEAN ] : FormOk(r) }

UploadRequests == Requests("upload", 1)
MultiUploadRequests == Requests("upload-multiple", MaxParts)

\* ------------------------------------------------------------- the app
Init ==
    /\ extracted_data = << >>
    /\ request = Idle
    /\ response = Idle
    /\ returned = << >>
    /\ parts = 0
    /\ call = Idle
    /\ results = << >>
    /\ pc = "done"

\* Serve with the log assigned, not extended: it holds the last upload only
Serve_assign(req, out) ==
    /\ extracted_data' = out.stored
    /\ request' = req
    /\ response' = out.response
    /\ returned' = Append(returned, IF out.response.success THEN Len(out.response.data) ELSE 0)
    /\ parts' = parts + Len(req.files)
    /\ UNCHANGED << call, results, pc >>

\* Serve with the records stored put in front of the log
Serve_prepend(req, out) ==
    /\ extracted_data' = out.stored \o extracted_data
    /\ request' = req
    /\ response' = out.response
    /\ returned' = Append(returned, IF out.response.success THEN Len(out.response.data) ELSE 0)
    /\ parts' = parts + Len(req.files)
    /\ UNCHANGED << call, results, pc >>

\* the end of both upload handlers: the log extended by the records stored,
\* the response returned
Serve(req, out) ==
    /\ extracted_data' = extracted_data \o out.stored
    /\ request' = req
    /\ response' = out.response
    /\ returned' = Append(returned, IF out.response.success THEN Len(out.response.data) ELSE 0)
    /\ parts' = parts + Len(req.files)
    /\ UNCHANGED << call, results, pc >>

upload_file ==
    /\ request = Idle
    /\ Len(returned) < MaxUploads
    /\ \E req \in UploadRequests :
           /\ parts + Len(req.files) <= MaxParts
           /\ Serve(req, upload_file_result(req))

upload_multiple_files ==
    /\ request = Idle
    /\ Len(returned) < MaxUploads
    /\ \E req \in MultiUploadRequests :
           /\ parts + Len(req.files) <= MaxParts
           /\ Serve(req, upload_multiple_files_result(req))

dashboard_data ==
    /\ request = Idle
    /\ request' = [ kind |-> "dashboard-data" ]
    /\ response' = [ kind |-> "json", success |-> TRUE, data |-> extracted_data,
                     summary |-> dashboard_data_summary(extracted_data) ]
    /\ UNCHANGED << extracted_data, returned, call, results, pc, parts >>

dashboard ==
    /\ request = Idle
    /\ request' = [ kind |-> "dashboard" ]
    /\ response' =
           IF extracted_data # << >>
           THEN [ kind |-> "redirect",
                  stats |-> create_summary_stats(
                                [ i \in DOMAIN extracted_data |-> Formatted(extracted_data[i]) ]) ]
           ELSE [ kind |-> "not-found", error |-> << "No data available for visualization" >> ]
    /\ UNCHANGED << extracted_data, returned, call, results, pc, parts >>

\* results.csv is written by nothing in the app: whether it exists is up to
\* the upload folder
download_results ==
    /\ request = Idle
    /\ \E exists \in BOOLEAN :
           /\ request' = [ kind |-> "download", csv_exists |-> exists ]
           /\ response' = IF exists THEN [ kind |-> "file" ]
                          ELSE [ kind |-> "not-found", error |-> << "No results file found" >> ]
    /\ UNCHANGED << extracted_data, returned, call, results, pc, parts >>

\* the response is sent and the single-threaded server takes the next request
Respond ==
    /\ request # Idle
    /\ request' = Idle
    /\ response' = Idle
    /\ UNCHANGED << extracted_data, returned, call, results, pc, parts >>

Next ==
    \/ Respond
    \/ upload_file
    \/ upload_multiple_files
    \/ dashboard_data
    \/ dashboard
    \/ download_results

Spec == Init /\ [][Next]_vars

\* ------------------------------------------------------ the threaded app
\* app.run() serves each request in a thread of its own. An upload handler
\* works on its own lists until it extends the log, which it does in one
\* list.extend; dashboard_data reads the log several times: len(), the
\* generator under sum(), the grouping loop and jsonify. Here call holds the
\* locals of the dashboard_data thread, pc the statement it is at, response
\* what it returned last, and results what each upload returned and stored.
InitThreads ==
    /\ extracted_data = << >>
    /\ request = Idle
    /\ response = Idle
    /\ returned = << >>
    /\ parts = 0
    /\ call = Idle
    /\ results = << >>
    /\ pc = "idle"

\* an upload handler, from its first line to its return
upload_thread ==
    /\ Len(returned) < MaxUploads
    /\ \E req \in UploadRequests \cup MultiUploadRequests :
           LET Stored(out) ==
                   /\ extracted_data' = extracted_data \o out.stored
                   /\ results' = Append(results, out)
                   /\ returned' = Append(returned, IF out.response.success
                                                   THEN Len(out.response.data) ELSE 0)
           IN  /\ parts + Len(req.files) <= MaxParts
               /\ parts' = parts + Len(req.files)
               /\ Stored(IF req.kind = "upload" THEN upload_file_result(req)
                         ELSE upload_multiple_files_result(req))
    /\ UNCHANGED << request, response, call, pc >>

\* total = len(extracted_data)
dashboard_data_total ==
    /\ pc = "idle"
    /\ pc' = "valid"
    /\ call' = [ total |-> Len(extracted_data), valid |-> 0, i |-> 1,
                 files_processed |-> NoFiles ]
    /\ response' = Idle
    /\ UNCHANGED << extracted_data, request, returned, results, parts >>

\* valid = sum(1 for item in extracted_data if ...): one item of the
\* generator, or its end
dashboard_data_valid ==
    /\ pc = "valid"
    /\ IF call.i <= Len(extracted_data)
       THEN /\ call' = [ call EXCEPT
                           !.valid = @ + (IF extracted_data[call.i].status = "correct"
                                          THEN 1 ELSE 0),
                           !.i = @ + 1 ]
            /\ pc' = pc
       ELSE /\ call' = [ call EXCEPT !.i = 1 ]
            /\ pc' = "group"
    /\ UNCHANGED << extracted_data, request, response, returned, results, parts >>

\* for item in extracted_data: one turn of the grouping loop, or its end
dashboard_data_group ==
    /\ pc = "group"
    /\ IF call.i <= Len(extracted_data)
       THEN /\ call' = [ call EXCEPT
                           !.files_processed =
                               GroupByFile(<< extracted_data[call.i] >>, 1, @),
                           !.i = @ + 1 ]
            /\ pc' = pc
       ELSE /\ call' = call
            /\ pc' = "return"
    /\ UNCHANGED << extracted_data, request, response, returned, results, parts >>

\* return jsonify({...})
dashboard_data_return ==
    /\ pc = "return"
    /\ pc' = "idle"
    /\ response' = [ kind |-> "json", success |-> TRUE, data |-> extracted_data,
                     summary |-> [ total |-> call.total, valid |-> call.valid,
                                   invalid |-> call.total - call.valid,
                                   success_rate |-> SuccessRate(call.valid, call.total),
                                   files_processed |->
                                       Cardinality(DOMAIN call.files_processed),
                                   files_breakdown |-> call.files_processed ] ]
    /\ call' = Idle
    /\ UNCHANGED << extracted_data, request, returned, results, parts >>

NextThreads ==
    \/ upload_thread
    \/ dashboard_data_total
    \/ dashboard_data_valid
    \/ dashboard_data_group
    \/ dashboard_data_return

SpecThreads == InitThreads /\ [][NextThreads]_vars

\* ================================================================ claims

\* the texts a pattern matches somewhere in the document, whitespace-stripped
MatchedTexts(doc, pattern) ==
    UNION { { StripChars(m, Whitespace) : m \in Range(finditer(pattern, doc.pages[p])) } :
            p \in TextPages(doc) }

\* the first page on which the pattern matches the text t
FirstPage(doc, pattern, t) ==
    CHOOSE p \in TextPages(doc) :
        /\ t \in Range(finditer(pattern, doc.pages[p]))
        /\ \A q \in TextPages(doc) :
               t \in Range(finditer(pattern, doc.pages[q])) => p <= q

Returned(pattern_type) ==
    pc = "done" /\ call.pattern_type = pattern_type /\ call.doc.fault = "none"

\* C1 (as claimed): for email_address, extract_data_from_pdf returns exactly
\* one record for each distinct matched email text, and that record's page is
\* the first page on which the text was matched.
C1_OneRecordPerEmail ==
    Returned("email_address") =>
        /\ Len(results) = Cardinality(MatchedTexts(call.doc, email_pattern))
        /\ \A i \in DOMAIN results :
               \E t \in MatchedTexts(call.doc, email_pattern) :
                   /\ results[i].value \in
                          { t, validate_and_format_email(t, call.dns_ok)[1] }
                   /\ results[i].page = FirstPage(call.doc, email_pattern, t)

\* the positions at which the term occurs in the text, ignoring case
OccurrencePositions(term, text) ==
    { p \in 1..(Len(text) - Len(term) + 1) :
        \A i \in DOMAIN term : ToLower(text[p + i - 1]) = ToLower(term[i]) }

\* how many of those occurrences a left-to-right reader counts when an
\* occurrence that overlaps a counted one is not counted again
RECURSIVE CountDisjoint(_, _, _)
CountDisjoint(positions, width, from) ==
    LET rest == { p \in positions : p >= from }
    IN  IF rest = { } THEN 0
        ELSE LET first == CHOOSE p \in rest : \A q \in rest : p <= q
             IN  1 + CountDisjoint(positions, width, first + width)

Occurrences(term, text) == CountDisjoint(OccurrencePositions(term, text), Len(term), 1)

RecordsOnPage(rs, p) == { i \in DOMAIN rs : rs[i].page = p }

\* C2: for custom_search with a non-empty term, extract_data_from_pdf returns
\* one record per case-insensitive occurrence of the term on every page that
\* has text, repeated occurrences included, each on the page of its
\* occurrence, in page order, each "correct" with the text as it occurs.
C2_OneRecordPerOccurrence ==
    Returned("custom_search") /\ Truthy(call.search_term) =>
        /\ \A i \in DOMAIN results :
               /\ results[i].page \in TextPages(call.doc)
               /\ LowerStr(results[i].value) = LowerStr(call.search_term)
               /\ results[i].status = "correct"
               /\ results[i].validation_message = None
        /\ \A p \in TextPages(call.doc) :
               Cardinality(RecordsOnPage(results, p))
                   = Occurrences(call.search_term, call.doc.pages[p])
        /\ \A i, j \in DOMAIN results : i <= j => results[i].page <= results[j].page

\* C2 witness: a search returned the same text twice on one page and again
\* on a later page.
C2_Witness ==
    /\ Returned("custom_search") /\ Truthy(call.search_term)
    /\ \E i, j, k \in DOMAIN results :
           /\ i < j /\ j < k
           /\ results[i].value = results[j].value /\ results[j].value = results[k].value
           /\ results[i].page = results[j].page /\ results[j].page < results[k].page

\* the fields that go through the generic page-scan-and-validate pathway
GenericFields == PatternFields \ SpecialFields

\* C3 (as claimed): for a regex-detected field other than mobile and email,
\* extract_data_from_pdf returns one record for each distinct
\* whitespace-stripped match of the field's pattern in the document.
C3_OneRecordPerGenericMatch ==
    pc = "done" /\ call.pattern_type \in GenericFields /\ call.doc.fault = "none" =>
        Len(results) = Cardinality(MatchedTexts(call.doc, PATTERNS[call.pattern_type]))

\* ------------------------------------------------ claims on the page scan
\* the call returned although the document could not be opened or scanned
Failed == pc = "done" /\ call.doc.fault \in { "open", "scan" }

\* C15: extract_data_from_pdf does not raise to its caller: when opening the
\* document or scanning any of its pages fails, after any number of records
\* were collected, the call returns the empty list.
C15_FailureReturnsEmpty == Failed => results = << >>

\* C15 witness: a call returned after the scan failed on a page that follows
\* a page on which records had been collected.
C15_Witness ==
    /\ Failed
    /\ \E p \in 1..(call.doc.at - 1) :
           /\ p \in TextPages(call.doc)
           /\ PageRecords(call.doc.pages[p], p, call.pattern_type, call.search_term,
                          call.dns_ok, call.genderize) # << >>

\* the records of page p, in the order returned
OfPage(rs, p) == SelectSeq(rs, LAMBDA r : r.page = p)

\* C16: a page without extractable text (empty or only whitespace) adds no
\* record, does not fail the extraction and neither stops nor renumbers the
\* later pages: every record's page is the 1-indexed position of a page with
\* text, and the records of each such page are those its own text yields.
C16_BlankPagesSkipped ==
    pc = "done" /\ call.doc.fault = "none" =>
        /\ \A i \in DOMAIN results :
               results[i].page >= 1 /\ results[i].page \in TextPages(call.doc)
        /\ \A p \in TextPages(call.doc) :
               OfPage(results, p) = PageRecords(call.doc.pages[p], p, call.pattern_type,
                                                call.search_term, call.dns_ok,
                                                call.genderize)
        /\ \A i, j \in DOMAIN results : i <= j => results[i].page <= results[j].page

\* C16 witness: records were returned for a page that follows a page without
\* text.
C16_Witness ==
    /\ pc = "done" /\ call.doc.fault = "none"
    /\ \E i \in DOMAIN results :
           \E p \in 1..(results[i].page - 1) : IsBlank(call.doc.pages[p])

\* C17 (as claimed): the name lookup is advisory: a full_name candidate is
\* reported correct only if it passes the basic structural validation,
\* whatever the lookup answers, and when no lookup reports a probability
\* above 0.6 the records are those of the structural validation alone.
C17_LookupIsAdvisory ==
    Returned("full_name") =>
        /\ \A i \in DOMAIN results :
               results[i].status = "correct" => BasicValidation(results[i].value)
        /\ (\A site \in DOMAIN call.genderize : call.genderize[site] # "likely") =>
               results = extract_data_from_pdf(call.doc, "full_name", None, TRUE,
                             [ site \in DOMAIN call.genderize |-> "error" ])

\* C18 (as claimed): no extraction blocks indefinitely: every call of
\* extract_data_from_pdf that a caller makes eventually returns, also when
\* the name lookup never answers.
C18_ExtractionCompletes == (pc = "call") ~> (pc = "done")

\* the stripped PERSON entity texts of the pages with text
PersonTexts(doc) ==
    UNION { { StripChars(nlp(doc.pages[p])[i].text, Whitespace) :
                i \in NameCandidates(nlp(doc.pages[p])) } : p \in TextPages(doc) }

\* the first page on which the name is recognised
FirstNamePage(doc, name) ==
    CHOOSE p \in TextPages(doc) :
        /\ \E i \in NameCandidates(nlp(doc.pages[p])) :
               StripChars(nlp(doc.pages[p])[i].text, Whitespace) = name
        /\ \A q \in TextPages(doc) :
               (\E i \in NameCandidates(nlp(doc.pages[q])) :
                    StripChars(nlp(doc.pages[q])[i].text, Whitespace) = name) => p <= q

\* C19 (as claimed): for full_name, de-duplication is by exact raw entity
\* text across the whole document: each recognised name yields exactly one
\* record, on the first page on which it was recognised.
C19_OneRecordPerName ==
    Returned("full_name") =>
        /\ Len(results) = Cardinality(PersonTexts(call.doc))
        /\ \A name \in PersonTexts(call.doc) :
               \E i \in DOMAIN results :
                   /\ results[i].page = FirstNamePage(call.doc, name)
                   /\ results[i].value \in
                          { name, validate_and_format_full_name(name, "error")[1],
                            validate_and_format_full_name(name, "likely")[1] }

DedicatedFlows == { "full_name", "mobile_number", "email_address" }

\* the candidates of a page in the order the flow validates them, each with
\* its raw text and the position its lookup answer is filed under
PageCandidates(text, pattern_type) ==
    CASE pattern_type = "full_name" ->
             LET ents == nlp(text)
                 kept == SelectSeq([ i \in DOMAIN ents |-> i ],
                                   LAMBDA i : i \in NameCandidates(ents))
             IN  [ k \in DOMAIN kept |->
                     [ raw |-> StripChars(ents[kept[k]].text, Whitespace), at |-> kept[k] ] ]
      [] pattern_type = "mobile_number" ->
             LET found == finditer(mobile_patterns[1], text)
                              \o finditer(mobile_patterns[2], text)
             IN  [ k \in DOMAIN found |-> [ raw |-> found[k], at |-> 0 ] ]
      [] pattern_type = "email_address" ->
             LET found == finditer(email_pattern, text)
             IN  [ k \in DOMAIN found |-> [ raw |-> found[k], at |-> 0 ] ]

\* what the flow's validator returns for a candidate of page p
Outcome(candidate, p) ==
    CASE call.pattern_type = "full_name" ->
             validate_and_format_full_name(candidate.raw,
                                           AnswerAt(call.genderize, p, candidate.at))
      [] call.pattern_type = "mobile_number" ->
             validate_and_format_mobile_number(candidate.raw)
      [] call.pattern_type = "email_address" ->
             validate_and_format_email(candidate.raw, call.dns_ok)

\* C20: in the name, mobile and email flows every candidate yields exactly
\* one record whatever its validator returns: the normalized value, status
\* correct and no message if the validator accepted it, else the raw text,
\* status incorrect and the validator's diagnostic.
C20_OneRecordPerCandidate ==
    pc = "done" /\ call.doc.fault = "none" /\ call.pattern_type \in DedicatedFlows =>
        \A p \in TextPages(call.doc) :
            LET candidates == PageCandidates(call.doc.pages[p], call.pattern_type)
                records == OfPage(results, p)
            IN  /\ Len(records) = Len(candidates)
                /\ \A k \in DOMAIN candidates :
                       LET validated == Outcome(candidates[k], p)
                       IN  IF Truthy(validated[1])
                           THEN records[k] = Record(validated[1], p, "correct", None,
                                                    call.pattern_type)
                           ELSE /\ Truthy(validated[2])
                                /\ records[k] = Record(candidates[k].raw, p, "incorrect",
                                                       validated[2], call.pattern_type)

\* C20 witness: a flow returned an accepted and a rejected candidate of the
\* same page.
C20_Witness ==
    /\ pc = "done" /\ call.doc.fault = "none" /\ call.pattern_type \in DedicatedFlows
    /\ \E i, j \in DOMAIN results :
           /\ results[i].page = results[j].page
           /\ results[i].status = "correct" /\ results[j].status = "incorrect"
           /\ results[i].value # results[j].value

\* --------------------------------------------------- claims on validators
\* a validator of the Validator Set was called and has returned or raised
ValidatorCalled == pc = "done" /\ call.validator \in Range(registry)

\* C11 (as claimed): every validator of the Validator Set, called with an
\* empty string or with a non-string input (None, a number), returns
\* (absent, message, "incorrect") and does not raise.
C11_EmptyOrNonStringRejected ==
    ValidatorCalled /\ EmptyOrNotStr(call.value) =>
        /\ ~results[1].raised
        /\ results[1].value = None
        /\ Truthy(results[1].message)
        /\ results[1].status = "incorrect"

\* C12 (as claimed): every validator of the Validator Set returns the verdict
\* "correct" or "incorrect" and no other: (normalized value, absent message,
\* "correct") for an accepted candidate and (absent value, non-empty message,
\* "incorrect") for a rejected one.
C12_VerdictCorrectOrIncorrect ==
    ValidatorCalled /\ IsStr(call.value) =>
        /\ ~results[1].raised
        /\ results[1].status \in { "correct", "incorrect" }
        /\ results[1].status = "correct" =>
               Truthy(results[1].value) /\ results[1].message = None
        /\ results[1].status = "incorrect" =>
               results[1].value = None /\ Truthy(results[1].message)

AadharCalled ==
    /\ pc = "done"
    /\ call.validator = "DataValidator.validate_and_format_aadhar"
    /\ IsStr(call.value)

\* the Aadhar validator accepts exactly when the candidate without the
\* characters of `separators` is 12 digits, and returns them as XXXX-XXXX-XXXX
AadharAcceptsWithout(separators) ==
    AadharCalled =>
        LET digits == Remove(call.value, separators)
            twelve == Len(digits) = 12 /\ \A i \in DOMAIN digits : digits[i] \in Digit
        IN  /\ (results[1].status = "correct") = twelve
            /\ twelve => /\ results[1].value =
                                SubSeq(digits, 1, 4) \o << "-" >> \o SubSeq(digits, 5, 8)
                                    \o << "-" >> \o SubSeq(digits, 9, 12)
                          /\ results[1].message = None
            /\ ~twelve => results[1].value = None

C14_NormalizationFixedPoint ==
    pc = "again" =>
        /\ Truthy(ValueOf(call.validator, results[2]))
        /\ ValueOf(call.validator, results[2]) = ValueOf(call.validator, results[1])

\* ------------------------------------------------------ claims on the app
IsPdfName(name) == name # << >> /\ EndsWithPdf(name)

\* a file part the handlers take for a PDF and can save and open
Readable(file) == IsPdfName(file.filename) /\ file.fault = "none"

\* what the extractor returns for a file of the served request
Extracted(file) ==
    extract_data_from_pdf(file, request.pattern_type, request.search_term, request.dns_ok,
                          NoLookups)

Untagged(r) == Record(r.value, r.page, r.status, r.validation_message, r.pattern_type)

RECURSIVE SumSeq(_)
SumSeq(ns) == IF ns = << >> THEN 0 ELSE Head(ns) + SumSeq(Tail(ns))

RECURSIVE Flatten(_)
Flatten(lists) == IF lists = << >> THEN << >> ELSE Head(lists) \o Flatten(Tail(lists))

MultiServed == request.kind = "upload-multiple" /\ response.success
UploadServed == request.kind \in { "upload", "upload-multiple" } /\ response.success

\* C4 (as claimed): in a multi-document upload, a document whose extraction
\* fails (a PDF that cannot be opened) contributes no records, is named in
\* the error list and is not counted among the successfully processed files.
C4_FailedDocumentReported ==
    MultiServed =>
        \A i \in DOMAIN request.files :
            LET file == request.files[i]
            IN  IsPdfName(file.filename) /\ file.fault = "open" =>
                    /\ Extracted(file) = << >>
                    /\ \E e \in Range(response.errors) : e.filename = file.filename
                    /\ response.successful_files
                           = Cardinality({ j \in DOMAIN request.files :
                                             Readable(request.files[j]) })

\* C5 (as claimed): in a multi-document upload, wherever the failing or
\* invalid documents stand in the input, the records of every valid PDF are
\* in the returned data and in the log, and the error entries are not among
\* the records.
C5_ValidDocumentsProcessed ==
    /\ request.kind = "upload-multiple"
    /\ \E i \in DOMAIN request.files :
           Readable(request.files[i]) /\ Extracted(request.files[i]) # << >>
    => /\ response.success
       /\ \A i \in DOMAIN request.files :
              Readable(request.files[i]) =>
                  Range(TagAll(Extracted(request.files[i]),
                               secure_filename(request.files[i].filename)))
                      \subseteq (Range(response.data) \cap Range(extracted_data))
       /\ \A r \in Range(response.data) : "error" \notin DOMAIN r

\* the tagged records of the i-th file part of the served request
PerFile(i) ==
    IF Readable(request.files[i])
    THEN TagAll(Extracted(request.files[i]), secure_filename(request.files[i].filename))
    ELSE << >>

LogTail(n) == SubSeq(extracted_data, Len(extracted_data) - n + 1, Len(extracted_data))

\* C6: the records a multi-document upload returns, and the segment it
\* appends to the log, are the per-document result lists concatenated in the
\* order the documents were supplied, each list in the extractor's order.
C6_RecordsInInputOrder ==
    MultiServed =>
        /\ response.data = Flatten([ i \in DOMAIN request.files |-> PerFile(i) ])
        /\ LogTail(Len(response.data)) = response.data
        /\ Len(extracted_data) = SumSeq(returned)

\* C6 witness: a multi-document upload returned the different, several-record
\* lists of two documents.
C6_Witness ==
    /\ MultiServed
    /\ Len(request.files) >= 2
    /\ Len(PerFile(1)) >= 2 /\ Len(PerFile(2)) >= 2
    /\ PerFile(1) # PerFile(2)

\* the tags of the records against the names Name gives the documents
TaggedBy(Name(_)) ==
    /\ UploadServed =>
           \A r \in Range(response.data) :
               /\ "filename" \in DOMAIN r
               /\ \E i \in DOMAIN request.files :
                      /\ r.filename = Name(request.files[i].filename)
                      /\ Untagged(r) \in Range(Extracted(request.files[i]))
    /\ \A r \in Range(extracted_data) :
           /\ "filename" \in DOMAIN r
           /\ \E n \in FileNames : IsPdfName(n) /\ r.filename = Name(n)

SameName(name) == name

\* C7 (as claimed): every record an upload returns, and every record of the
\* log, carries a source-file tag that is the name of the document it was
\* extracted from.
C7_TaggedWithDocumentName == TaggedBy(SameName)

\* C7 (amended): every record an upload returns, and every record of the
\* log, carries a source-file tag, and the tag is the sanitised
\* (secure_filename) form of the name of the document it was extracted from.
C7_TaggedWithSecureName == TaggedBy(secure_filename)

\* C7 witness: an upload returned records of two documents, one of them under
\* a name that sanitising changes.
C7_Witness ==
    /\ MultiServed
    /\ \E i, j \in DOMAIN request.files :
           /\ PerFile(i) # << >> /\ PerFile(j) # << >>
           /\ request.files[i].filename # request.files[j].filename
           /\ secure_filename(request.files[i].filename) # request.files[i].filename

\* C8: the summary of dashboard-data counts the whole log: its total is the
\* number of records all uploads since process start returned.
C8_SummaryIsCumulative ==
    request.kind = "dashboard-data" => response.summary.total = SumSeq(returned)

\* C8 witness: a summary taken after two uploads that both returned records.
C8_Witness ==
    /\ request.kind = "dashboard-data"
    /\ Len(returned) = 2 /\ returned[1] > 0 /\ returned[2] > 0

RECURSIVE SumTotals(_, _)
SumTotals(breakdown, names) ==
    IF names = { } THEN 0
    ELSE LET n == CHOOSE n \in names : TRUE
         IN  breakdown[n].total + SumTotals(breakdown, names \ { n })

C10_ProgrammerErrorsFail ==
    /\ request.kind \in { "upload", "upload-multiple" }
    /\ request.files # << >> /\ Readable(request.files[1])
    /\ \/ request.pattern_type \notin PatternKeys
       \/ request.pattern_type = "custom_search" /\ ~Truthy(request.search_term)
    => ~response.success

\* ------------------------------------------------------ claims on the log
IsPrefix(s, t) == Len(s) <= Len(t) /\ SubSeq(t, 1, Len(s)) = s

\* the step starts serving an upload request that the handler rejects
RejectsUpload ==
    /\ request = Idle
    /\ request'.kind \in { "upload", "upload-multiple" }
    /\ ~response'.success

\* the step starts serving a request of a handler that only reads
ServesRead ==
    /\ request = Idle
    /\ request'.kind \in { "dashboard", "dashboard-data", "download" }

\* C21: the records of the log are neither changed nor removed once they are
\* appended: every step of every handler leaves the records logged so far
\* unchanged and in place, so the log grows at its end only; a rejected
\* upload and the dashboard, dashboard-data and download handlers leave the
\* log as it is.
C21_LogAppendOnly ==
    [][ /\ IsPrefix(extracted_data, extracted_data')
        /\ RejectsUpload \/ ServesRead => extracted_data' = extracted_data ]_vars

\* C21 witness: two uploads have each logged records, and the records of the
\* first are in the log before those of the second.
C21_Witness ==
    /\ Len(returned) = 2 /\ returned[1] > 0 /\ returned[2] > 0
    /\ request # Idle /\ request.kind \in { "upload", "upload-multiple" }
    /\ response.success
    /\ Len(extracted_data) = returned[1] + returned[2]
    /\ SubSeq(extracted_data, returned[1] + 1, Len(extracted_data)) = response.data
    /\ SubSeq(extracted_data, 1, returned[1]) # response.data

\* ------------------------------------------- claims on the validator set
\* the field whose candidates the extractor hands to a validator of app.py
FieldOf(validator) ==
    CASE validator = "validate_and_format_full_name" -> "full_name"
      [] validator = "validate_and_format_mobile_number" -> "mobile_number"
      [] validator = "validate_and_format_email" -> "email_address"

\* the value is a raw candidate of the field: a stripped entity text without
\* commas, or a whole match of a detection pattern of the field
IsCandidate(field, value) ==
    CASE field = "full_name" ->
             /\ value # << >> /\ "," \notin Range(value)
             /\ value = StripChars(value, Whitespace)
      [] field = "mobile_number" ->
             \E k \in DOMAIN mobile_patterns : finditer(mobile_patterns[k], value) = << value >>
      [] field = "email_address" -> finditer(email_pattern, value) = << value >>

\* C22 (as claimed): the verdict and the value the extractor records for a
\* full_name, mobile_number or email_address candidate are those of the
\* validator that get_validator_for_type returns for the field: the
\* extractor's validator accepts a candidate exactly when that validator
\* does, and with the same value.
C22_ExtractorUsesRegistry ==
    pc = "done" /\ call.validator \in AppValidators
                /\ IsCandidate(FieldOf(call.validator), call.value) =>
        \A has_lists \in BOOLEAN :
            LET out == Apply(get_validator_for_type(FieldOf(call.validator)), call.value,
                             call.dns_ok, "error", has_lists)
            IN  /\ Truthy(results[1][1]) <=> out.status = "correct"
                /\ Truthy(results[1][1]) => results[1][1] = out.value

\* ------------------------------------------- claims on the mobile flow
\* the texts the two mobile patterns match on the pages with text
MobileTexts(doc) ==
    UNION { Range(finditer(mobile_patterns[1], doc.pages[p]))
                \cup Range(finditer(mobile_patterns[2], doc.pages[p])) : p \in TextPages(doc) }

\* C23 (as claimed): for mobile_number the records of one extraction have
\* pairwise distinct raw matched texts: a text matched by both patterns, or
\* matched again on the same or a later page, yields one record, so there
\* are as many records as distinct matched texts.
C23_OneRecordPerMobileText ==
    Returned("mobile_number") => Len(results) = Cardinality(MobileTexts(call.doc))

\* ------------------------------------------- claims on concurrent requests
\* C24 (as claimed): with upload and dashboard-data requests served
\* concurrently, every summary returned is that of one snapshot of the log:
\* valid is at most total, invalid is not negative and the per-file totals
\* add up to total; and the log holds the records of each upload once, as a
\* block, in the order the uploads stored them.
C24_ConcurrentSummaryConsistent ==
    /\ response # Idle =>
           /\ response.summary.valid <= response.summary.total
           /\ response.summary.invalid >= 0
           /\ SumTotals(response.summary.files_breakdown,
                        DOMAIN response.summary.files_breakdown) = response.summary.total
    /\ extracted_data = Flatten([ k \in DOMAIN results |-> results[k].stored ])

====
